---- MODULE Spec2Model ----
(***************************************************************************)
(* Conversational-memory persistence layer of chat_agent:                  *)
(* DifyKnowledgeClient (knowledge_client.py) on top of a segment store     *)
(* that offers only list / create / delete, with the DifySummarizer        *)
(* (summarizer.py) as an auxiliary service.                                *)
(*                                                                         *)
(* Conventions of the encoding                                             *)
(*   - a JSON key that is absent, null or "" is the empty string "" (the   *)
(*     code reads all of them through `x.get(k) or ...`); an absent or     *)
(*     falsy timestamp is 0. The "role" of a history item is read with     *)
(*     data.get("role", "user"): there the absent key is Unset and "" is a *)
(*     key that is present with a null or empty value;                     *)
(*   - timestamps are the integers 1..MaxClock, ordered like the ISO-8601  *)
(*     strings of _timestamp(), which has a resolution of one second: two  *)
(*     calls may read the same value, and the clock may advance between    *)
(*     any two of them;                                                    *)
(*   - an HTTP outcome is its status code, 0 standing for a transport      *)
(*     failure (requests.RequestException).                                *)
(***************************************************************************)
EXTENDS Integers, Sequences, FiniteSets, TLC

VARIABLES
    segments,      \* the store: the modelled users' segments, in list order
    foreign,       \* number of other users' segments listed before them
    nextId,        \* the id the store gives to the next created segment
    known_names,   \* DifyKnowledgeClient._known_names
    summarizer,    \* TRUE iff DifyKnowledgeClient._summarizer is not None
    now,           \* the wall clock read by _timestamp()
    last,          \* the last facade call: arguments, remote calls, result
    pc,            \* concurrent writers: position inside store_message
    loc,           \* concurrent writers: local variables of store_message
    overlap,       \* concurrent writers: some list ran while a call was in flight
    chat,          \* DifyChatClient: a response's metadata and its citations
    parsing,       \* DifySummarizer: an answer and what _parse_summary made of it
    session        \* the chat session: st.session_state and the run in progress

vars == <<segments, foreign, nextId, known_names, summarizer, now, last,
          pc, loc, overlap, chat, parsing, session>>

(***************************************************************************)
(* Bounds of the model                                                     *)
(***************************************************************************)
MaxHist == 3       \* longest history a store_message may persist
MaxSegs == 2       \* number of segments created in one behaviour
MaxClock == 2      \* last value of the clock

(***************************************************************************)
(* Program constants and input domains                                     *)
(***************************************************************************)
ListLimit == 100   \* params = {"limit": 100, "offset": 0}

Emails == {"a@x.com", "b@x.com"}
Roles == {"user", "assistant"}
Contents == {"", "hello"}
ConvIds == {"", "c1"}
Unset == "<unset>"     \* key absent: from _known_names, "role" from an item

Min(a, b) == IF a < b THEN a ELSE b
Max(a, b) == IF a > b THEN a ELSE b

(***************************************************************************)
(* JSON values: history items and record payloads                          *)
(***************************************************************************)
\* A raw item of a "history" list. isdict = FALSE is any non-object item.
Item(ts, role, summary, content, cid, flag) ==
    [isdict |-> TRUE, timestamp |-> ts, role |-> role, summary |-> summary,
     content |-> content, conversation_id |-> cid,
     question_hie_related |-> flag]

NonDictItem ==
    [isdict |-> FALSE, timestamp |-> 0, role |-> Unset, summary |-> "",
     content |-> "", conversation_id |-> "", question_hie_related |-> ""]

\* The decoded content of a segment. kind: "dict" a JSON object, "nondict"
\* any other JSON value, "invalid" text that is not JSON. hasList says
\* whether the object's "history" is a list; top holds the object's own
\* summary/role/timestamp/... keys (the legacy flat shape). An object has
\* at least one key (nonempty), whether the code reads it or not, unless it
\* is EmptyDict.
Payload(kind, email, name, hasList, history, top) ==
    [kind |-> kind, nonempty |-> kind = "dict", email |-> email,
     name |-> name, hasList |-> hasList, history |-> history, top |-> top]

NoTop == Item(0, Unset, "", "", "", "")
EmptyDict == [Payload("dict", "", "", FALSE, <<>>, NoTop) EXCEPT !.nonempty = FALSE]
NonDictJson == Payload("nondict", "", "", FALSE, <<>>, NoTop)
InvalidJson == Payload("invalid", "", "", FALSE, <<>>, NoTop)

Segment(id, metaEmail, content) ==
    [id |-> id, metaEmail |-> metaEmail, content |-> content]

\* json.loads(segment.get("content") or "") with JSONDecodeError -> {}
DecodeOrEmpty(content) ==
    IF content.kind = "invalid" THEN EmptyDict ELSE content

(***************************************************************************)
(* Record codec: _coerce_history_entry, _parse_record, _build_history_entry *)
(***************************************************************************)
\* Mutant of CoerceHistoryEntry: the conversation_id is not carried over.
CoerceHistoryEntryNoConv(data, t) ==
    IF ~data.isdict THEN <<>>
    ELSE << Item(IF data.timestamp # 0 THEN data.timestamp ELSE t,
                 IF data.role = Unset THEN "user" ELSE data.role,
                 IF data.summary # "" THEN data.summary ELSE data.content,
                 "", "", "") >>

\* _coerce_history_entry(data): <<>> for None, else <<entry>>. The entry has
\* only summary, role, timestamp and (if truthy) conversation_id.
CoerceHistoryEntry(data, t) ==
    IF ~data.isdict THEN <<>>
    ELSE << Item(IF data.timestamp # 0 THEN data.timestamp ELSE t,
                 IF data.role = Unset THEN "user" ELSE data.role,
                 IF data.summary # "" THEN data.summary ELSE data.content,
                 "",
                 data.conversation_id,
                 "") >>

\* Line 292: the item reads the clock when it has no truthy timestamp.
ReadsClock(data) == data.isdict /\ data.timestamp = 0

\* The values n successive calls of _timestamp() may return from time t on.
ClockReads(t, n) ==
    { r \in [1..n -> t..MaxClock] : \A i \in 1..(n - 1) : r[i] <= r[i + 1] }

\* The clock after the reads r.
ClockAfter(t, r) == IF Len(r) = 0 THEN t ELSE r[Len(r)]

\* The reads left once the item has been decoded.
ReadsAfter(data, reads) ==
    IF ReadsClock(data) THEN Tail(reads) ELSE reads

\* Lines 273-276: the items of a "history" list, each reading the clock
\* when it needs to; reads are the values the clock returns, in order.
RECURSIVE CoerceAll(_, _)
CoerceAll(items, reads) ==
    IF items = <<>> THEN <<>>
    ELSE CoerceHistoryEntry(Head(items),
                            IF ReadsClock(Head(items)) THEN Head(reads) ELSE 0)
         \o CoerceAll(Tail(items), ReadsAfter(Head(items), reads))

\* The top-level object read as a history item (legacy flat shape).
PayloadAsItem(payload) ==
    [payload.top EXCEPT !.isdict = TRUE]

\* The items _parse_record decodes.
RecordItems(payload) ==
    IF payload.kind # "dict" THEN <<>>
    ELSE IF payload.hasList THEN payload.history
    ELSE <<PayloadAsItem(payload)>>

\* The number of times _parse_record reads the clock.
ClockNeeded(payload) ==
    Len(SelectSeq(RecordItems(payload), ReadsClock))

\* Mutant of ParseRecord: a record without a "history" list has no history.
ParseRecordListOnly(payload, reads) ==
    IF payload.kind # "dict" THEN [name |-> "", history |-> <<>>]
    ELSE [name |-> payload.name,
          history |-> IF payload.hasList
                      THEN CoerceAll(payload.history, reads)
                      ELSE <<>>]

\* _parse_record(payload) -> (name, history)
ParseRecord(payload, reads) ==
    IF payload.kind # "dict" THEN [name |-> "", history |-> <<>>]
    ELSE [name |-> payload.name,
          history |-> CoerceAll(RecordItems(payload), reads)]

\* _build_history_entry(role, summary, conversation_id, question_hie_related)
BuildHistoryEntry(role, summary, cid, flag, t) ==
    Item(t, role, summary, "", cid, flag)

\* message_blob of _create_new_entry after json.dumps / json.loads
RecordBlob(email, name, history) ==
    Payload("dict", email, name, TRUE, history, NoTop)

(***************************************************************************)
(* Summarizer adapter: DifySummarizer and DifyKnowledgeClient._summarize   *)
(***************************************************************************)
\* (x or "").strip().lower() on the flag values of the model
StripLower(x) ==
    CASE x = " No " -> "no"
      [] x = "YES"  -> "yes"
      [] OTHER      -> x

\* Mutant of NormalizeFlag: the value is passed on as received.
NormalizeFlagRaw(raw) == raw

NormalizeFlag(raw) ==
    IF StripLower(raw) \in {"yes", "no"} THEN StripLower(raw) ELSE "yes"

\* The answer of the completion endpoint. json: what json.loads makes of the
\* cleaned answer ("dict", "nondict", "invalid") or "empty" for an empty
\* answer; text: the cleaned answer itself.
Answer(json, text, summary, name, flag) ==
    [json |-> json, text |-> text, summary |-> summary, name |-> name,
     flag |-> flag]

Answers ==
    { Answer("dict", "{..}", "sum", "Bob", "no"),
      Answer("dict", "{..}", "sum", "", " No "),
      Answer("dict", "{..}", "", "", "maybe"),
      Answer("dict", "{..}", "sum", "", ""),
      Answer("dict", "{..}", "sum", "", "YES"),
      Answer("invalid", "plain words", "", "", ""),
      Answer("nondict", "[1]", "", "", ""),
      Answer("empty", "", "", "", "") }

\* One call of the summarization endpoint: HTTP status (0: transport
\* failure) and, for 200, the answer.
SummarizerReplies ==
    {[status |-> 200, answer |-> a] : a \in Answers}
    \cup {[status |-> st, answer |-> Answer("empty", "", "", "", "")] : st \in {0, 500}}

Result(summary, name, flag) ==
    [summary |-> summary, name |-> name, question_hie_related |-> flag]

\* DifySummarizer._parse_summary(answer, fallback_name); raised stands for the
\* AttributeError of payload.get on a JSON value that is not an object.
ParseSummary(answer, fallback_name) ==
    CASE answer.json = "empty" ->
            [raised |-> FALSE, result |-> Result("", fallback_name, "yes")]
      [] answer.json = "invalid" ->
            [raised |-> FALSE, result |-> Result(answer.text, fallback_name, "yes")]
      [] answer.json = "nondict" ->
            [raised |-> TRUE, result |-> Result("", "", "")]
      [] OTHER ->
            [raised |-> FALSE,
             result |-> Result(answer.summary,
                               IF answer.name # "" THEN answer.name ELSE fallback_name,
                               NormalizeFlag(answer.flag))]

\* DifySummarizer.summarize(role, message, existing_name) for a non-empty
\* message: DifySummaryError on a transport failure or a status other than 200.
SummarizerSummarize(existing_name, reply) ==
    IF reply.status # 200
    THEN [raised |-> TRUE, result |-> Result("", "", "")]
    ELSE ParseSummary(reply.answer, existing_name)

\* Mutant of SummarizeFallback: the raw text is not used as the summary.
SummarizeFallbackEmpty(content, existing_name) ==
    [summary |-> "", name |-> existing_name, question_hie_related |-> "yes"]

\* The values _summarize returns when the summarizer is off or fails.
SummarizeFallback(content, existing_name) ==
    Result(content, existing_name, "yes")

\* DifyKnowledgeClient._summarize(role, content, existing_name)
Summarize(enabled, content, existing_name, reply) ==
    IF ~enabled THEN SummarizeFallback(content, existing_name)
    ELSE LET r == SummarizerSummarize(existing_name, reply) IN
         IF r.raised THEN SummarizeFallback(content, existing_name)
         ELSE Result(IF r.result.summary # "" THEN r.result.summary ELSE content,
                     IF r.result.name # "" THEN r.result.name ELSE existing_name,
                     NormalizeFlag(r.result.question_hie_related))

(***************************************************************************)
(* DifySummarizer._parse_summary on the text of an answer                  *)
(***************************************************************************)
\* The text is a sequence of pieces: a run of three backticks (written
\* "~~~" here), a language hint, a line break, a JSON object, a JSON value
\* that is no object, words that are no JSON. Every "{..}" piece is the same
\* object, whose fields the answer carries next to its text.
Fence == "~~~"
Pieces == {Fence, "json", "\n", "{..}", "[1]", "words"}

RawAnswer(pieces, summary, name, flag) ==
    [pieces |-> pieces, summary |-> summary, name |-> name, flag |-> flag]

\* The text as one string
RECURSIVE Join(_)
Join(pieces) ==
    IF pieces = <<>> THEN "" ELSE Head(pieces) \o Join(Tail(pieces))

\* str.strip(): white space removed at both ends
RECURSIVE LStripSpace(_)
LStripSpace(pieces) ==
    IF pieces # <<>> /\ Head(pieces) = "\n"
    THEN LStripSpace(Tail(pieces)) ELSE pieces

RECURSIVE RStripSpace(_)
RStripSpace(pieces) ==
    IF pieces # <<>> /\ pieces[Len(pieces)] = "\n"
    THEN RStripSpace(SubSeq(pieces, 1, Len(pieces) - 1)) ELSE pieces

StripSpace(pieces) == RStripSpace(LStripSpace(pieces))

\* cleaned.lstrip: every leading backtick goes, nothing else
RECURSIVE LStripTicks(_)
LStripTicks(pieces) ==
    IF pieces # <<>> /\ Head(pieces) = Fence
    THEN LStripTicks(Tail(pieces)) ELSE pieces

\* cleaned.split(fence, 1)[0]: the text before the first fence left
RECURSIVE BeforeFence(_)
BeforeFence(pieces) ==
    IF pieces = <<>> \/ Head(pieces) = Fence THEN <<>>
    ELSE <<Head(pieces)>> \o BeforeFence(Tail(pieces))

\* Lines 129-133: cleaned
Cleaned(pieces) ==
    LET c == StripSpace(pieces) IN
    IF c # <<>> /\ Head(c) = Fence THEN BeforeFence(LStripTicks(c)) ELSE c

\* json.loads(text): white space around one JSON value is accepted, anything
\* else is a JSONDecodeError ("invalid").
JsonLoads(pieces) ==
    LET v == StripSpace(pieces) IN
    IF Len(v) = 1 /\ v[1] = "{..}" THEN "dict"
    ELSE IF Len(v) = 1 /\ v[1] = "[1]" THEN "nondict"
    ELSE "invalid"

\* What _parse_summary has in hand after lines 126-135: nothing for an empty
\* answer, else the cleaned text and what json.loads makes of it.
CleanedAnswer(raw) ==
    IF raw.pieces = <<>> THEN Answer("empty", "", "", "", "")
    ELSE LET c == Cleaned(raw.pieces) IN
         IF JsonLoads(c) = "dict"
         THEN Answer("dict", Join(c), raw.summary, raw.name, raw.flag)
         ELSE Answer(JsonLoads(c), Join(c), "", "", "")

\* _parse_summary(answer, fallback_name) on the text of the answer
ParseRawSummary(raw, fallback_name) ==
    ParseSummary(CleanedAnswer(raw), fallback_name)

(***************************************************************************)
(* Segment store: list / create / delete on one document                   *)
(***************************************************************************)
\* GET .../segments?limit=<limit>&offset=0: the first <limit> segments of the
\* document. The other users' segments come first, so only limit - foreign
\* places are left for the modelled ones.
Window(segs, fgn, limit) ==
    SubSeq(segs, 1, Min(Len(segs), Max(0, limit - fgn)))

\* POST .../segments: the store appends the new segment to the document.
StoreCreate(segs, id, email, blob) ==
    Append(segs, Segment(id, email, blob))

\* DELETE .../segments/<id>: the status the store answers and what is left.
RECURSIVE Without(_, _)
Without(segs, id) ==
    IF segs = <<>> THEN <<>>
    ELSE IF Head(segs).id = id THEN Without(Tail(segs), id)
    ELSE <<Head(segs)>> \o Without(Tail(segs), id)

HasId(segs, id) == \E i \in 1..Len(segs) : segs[i].id = id

StoreDeleteStatus(segs, id) == IF HasId(segs, id) THEN 204 ELSE 404

\* Outcomes of the remote calls: a status, 0 for a transport failure.
ListStatuses == {200, 404, 500, 0}
DeleteFaults == {500, 0}
CreateStatuses == {200, 500, 0}

(***************************************************************************)
(* Status handling of the client                                           *)
(***************************************************************************)
\* _find_existing_segment: RequestException or status >= 400 raises
LookupRaises(status) == status = 0 \/ status >= 400

\* _delete_segment: RequestException or status not in {200, 202, 204, 404}
DeleteRaises(status) == status \notin {200, 202, 204, 404}

\* Mutant of CreateRaises: the status of the create call is not checked.
CreateRaisesNever(status) == FALSE

\* _create_new_entry: RequestException or status >= 400 raises
CreateRaises(status) == status = 0 \/ status >= 400

\* Mutant of FetchRaises: 404 handled as in _find_existing_segment.
FetchRaisesLikeLookup(status) == status = 0 \/ status >= 400

\* fetch_user_history: 404 returns [], RequestException or another status
\* >= 400 raises
FetchRaises(status) == status = 0 \/ (status >= 400 /\ status # 404)
FetchReturnsEmpty(status) == status = 404

(***************************************************************************)
(* _find_existing_segment                                                  *)
(***************************************************************************)
\* Mutant of EffectiveEmail: the email in the content is never consulted.
EffectiveEmailMetaOnly(seg) == seg.metaEmail

\* effective_email = candidate_email or decoded_email
EffectiveEmail(seg) ==
    LET decoded == DecodeOrEmpty(seg.content)
        decoded_email == IF decoded.kind = "dict" THEN decoded.email ELSE ""
    IN IF seg.metaEmail # "" THEN seg.metaEmail ELSE decoded_email

RECURSIVE FirstMatch(_, _, _)
FirstMatch(listed, email, i) ==
    IF i > Len(listed) THEN 0
    ELSE IF EffectiveEmail(listed[i]) = email THEN i
    ELSE FirstMatch(listed, email, i + 1)

NoSegment == Segment(0, "", EmptyDict)

\* (segment, payload) of _find_existing_segment on the listed segments;
\* found = FALSE is (None, None).
FindExistingSegment(listed, email) ==
    LET i == FirstMatch(listed, email, 1) IN
    IF i = 0 THEN [found |-> FALSE, segment |-> NoSegment, payload |-> EmptyDict]
    ELSE [found |-> TRUE, segment |-> listed[i],
          payload |-> IF DecodeOrEmpty(listed[i].content).kind = "dict"
                      THEN DecodeOrEmpty(listed[i].content) ELSE EmptyDict]

(***************************************************************************)
(* store_message: the computation between the list call and the write      *)
(***************************************************************************)
\* Mutant of MergeName: neither name is kept.
MergeNameEmpty(detected_name, existing_name) == ""

\* updated_name = detected_name or existing_name or ""
MergeName(detected_name, existing_name) ==
    IF detected_name # "" THEN detected_name ELSE existing_name

\* Lines 129-133: the located record decoded; reads are the values the
\* clock returns to _coerce_history_entry.
ExistingRecord(find, reads) ==
    IF find.found THEN ParseRecord(find.payload, reads)
    ELSE [name |-> "", history |-> <<>>]

\* The number of times lines 129-133 read the clock.
StoreClockNeeded(find) ==
    IF find.found THEN ClockNeeded(find.payload) ELSE 0

\* Lines 135-149: summarize, build the entry at time t (the clock is read
\* again, after the summarization call), append it, merge the name.
PrepareRecord(existing_name, existing_history, enabled, role, content, cid, reply, t) ==
    LET s == Summarize(enabled, content, existing_name, reply)
        new_entry == BuildHistoryEntry(role, s.summary, cid,
                        IF role = "user" THEN s.question_hie_related ELSE "", t)
    IN [existing_name |-> existing_name,
        existing_history |-> existing_history,
        new_entry |-> new_entry,
        history |-> Append(existing_history, new_entry),
        updated_name |-> MergeName(s.name, existing_name)]

(***************************************************************************)
(* Query facade: the pure parts of fetch_user_history and                  *)
(* get_stored_info_summary                                                 *)
(***************************************************************************)
\* Mutant of FetchedEntry: the summary is read from the "content" key only.
FetchedEntryContentOnly(entry) ==
    [isdict |-> TRUE, timestamp |-> entry.timestamp, role |-> entry.role,
     summary |-> entry.content, content |-> entry.content,
     conversation_id |-> entry.conversation_id, question_hie_related |-> ""]

\* One returned entry of fetch_user_history: role, summary, content (a copy
\* of the summary), timestamp, conversation_id.
FetchedEntry(entry) ==
    Item(entry.timestamp,
         entry.role,
         IF entry.summary # "" THEN entry.summary ELSE entry.content,
         IF entry.summary # "" THEN entry.summary ELSE entry.content,
         entry.conversation_id,
         "")

RECURSIVE FetchedAll(_)
FetchedAll(entries) ==
    IF entries = <<>> THEN <<>>
    ELSE <<FetchedEntry(Head(entries))>> \o FetchedAll(Tail(entries))

\* Lines 436-442: the segments fetch_user_history keeps.
FetchKeeps(seg, email) ==
    /\ seg.content.kind = "dict"
    /\ (IF seg.metaEmail # "" THEN seg.metaEmail ELSE seg.content.email) = email

\* The number of times fetch_user_history reads the clock (line 444).
RECURSIVE FetchClockNeeded(_, _)
FetchClockNeeded(listed, email) ==
    IF listed = <<>> THEN 0
    ELSE (IF FetchKeeps(Head(listed), email)
          THEN ClockNeeded(Head(listed).content) ELSE 0)
         + FetchClockNeeded(Tail(listed), email)

\* combined_history before the sort (lines 423-457); reads are the values
\* the clock returns, in order.
RECURSIVE CombinedHistory(_, _, _)
CombinedHistory(listed, email, reads) ==
    IF listed = <<>> THEN <<>>
    ELSE IF FetchKeeps(Head(listed), email)
    THEN LET n == ClockNeeded(Head(listed).content) IN
         FetchedAll(ParseRecord(Head(listed).content, SubSeq(reads, 1, n)).history)
         \o CombinedHistory(Tail(listed), email, SubSeq(reads, n + 1, Len(reads)))
    ELSE CombinedHistory(Tail(listed), email, reads)

\* The cache after the loop: the last kept segment with a truthy name wins.
RECURSIVE FetchedName(_, _, _)
FetchedName(listed, email, name) ==
    IF listed = <<>> THEN name
    ELSE FetchedName(Tail(listed), email,
            IF FetchKeeps(Head(listed), email) /\ Head(listed).content.name # ""
            THEN Head(listed).content.name ELSE name)

\* Mutant of SortByTimestamp: the combined history is returned unsorted.
SortSkipped(entries) == entries

\* list.sort(key=_sort_key): stable, ascending by timestamp
RECURSIVE InsertSorted(_, _)
InsertSorted(sorted, e) ==
    IF sorted = <<>> THEN <<e>>
    ELSE IF Head(sorted).timestamp <= e.timestamp
         THEN <<Head(sorted)>> \o InsertSorted(Tail(sorted), e)
         ELSE <<e>> \o sorted

RECURSIVE SortByTimestamp(_)
SortByTimestamp(entries) ==
    IF entries = <<>> THEN <<>>
    ELSE InsertSorted(SortByTimestamp(SubSeq(entries, 1, Len(entries) - 1)),
                      entries[Len(entries)])

\* The result of get_stored_info_summary
Info(has_data, name, count, first, lst, topics) ==
    [has_data |-> has_data, name |-> name, message_count |-> count,
     first_interaction |-> first, last_interaction |-> lst,
     sample_topics |-> topics]

NoData == Info(FALSE, "", 0, 0, 0, <<>>)

RECURSIVE UserMessages(_)
UserMessages(history) ==
    IF history = <<>> THEN <<>>
    ELSE (IF Head(history).role = "user" /\ Head(history).summary # ""
          THEN <<Head(history).summary>> ELSE <<>>)
         \o UserMessages(Tail(history))

\* Mutant of LastThree: every user summary is a sample topic.
LastThreeAll(s) == s

LastThree(s) == SubSeq(s, Max(1, Len(s) - 2), Len(s))

Timestamps(history) ==
    {history[i].timestamp : i \in 1..Len(history)} \ {0}

MinOf(S) == IF S = {} THEN 0 ELSE CHOOSE x \in S : \A y \in S : x <= y
MaxOf(S) == IF S = {} THEN 0 ELSE CHOOSE x \in S : \A y \in S : x >= y

\* Line 513: `if not segment or not payload`, the truth of the decoded
\* object: any key makes it true.
HasData(find) == find.found /\ find.payload.nonempty

\* The number of times get_stored_info_summary reads the clock (line 523).
InfoClockNeeded(find) ==
    IF HasData(find) THEN ClockNeeded(find.payload) ELSE 0

\* Lines 513-553 of get_stored_info_summary, from the lookup's result; 0 is
\* None for first_interaction and last_interaction.
StoredInfo(find, reads) ==
    IF ~HasData(find) THEN NoData
    ELSE LET parsed == ParseRecord(find.payload, reads) IN
         Info(TRUE, parsed.name, Len(parsed.history),
              MinOf(Timestamps(parsed.history)),
              MaxOf(Timestamps(parsed.history)),
              LastThree(UserMessages(parsed.history)))

(***************************************************************************)
(* DifyChatClient: citations of a chat response (dify_client.py)           *)
(***************************************************************************)
\* One entry of a citation candidate. A JSON object is modelled by the keys
\* _normalize_citation reads ("" for an absent, null or empty key); any other
\* value by its str().
RawCitation(content, text, document_name, title, url, document_id) ==
    [isdict |-> TRUE, str |-> "",
     content |-> content, text |-> text, segment_content |-> "",
     document_name |-> document_name, title |-> title, dataset_name |-> "",
     source |-> "", provider_name |-> "",
     url |-> url, link |-> "", document_id |-> document_id, segment_id |-> ""]

ScalarCitation(text) ==
    [RawCitation("", "", "", "", "", "") EXCEPT !.isdict = FALSE, !.str = text]

\* The value of one metadata key. kind: "none" a missing or falsy value,
\* "list" a list (data: its items), "wrapped" an object with a list under
\* "data", "dict" any other object (self), "scalar" any other truthy value.
Value(kind, data, self) == [kind |-> kind, data |-> data, self |-> self]
NoValue == Value("none", <<>>, ScalarCitation(""))

\* a or b or ... or ""
RECURSIVE FirstTruthy(_)
FirstTruthy(xs) ==
    IF xs = <<>> THEN ""
    ELSE IF Head(xs) # "" THEN Head(xs) ELSE FirstTruthy(Tail(xs))

Citation(title, snippet, source) ==
    [title |-> title, snippet |-> snippet, source |-> source]

\* Lines 190-224: one normalized entry
NormalizeItem(item) ==
    IF item.isdict
    THEN Citation(FirstTruthy(<<item.document_name, item.title, item.dataset_name,
                                item.source, item.provider_name>>),
                  FirstTruthy(<<item.content, item.text, item.segment_content>>),
                  FirstTruthy(<<item.url, item.link, item.document_id,
                                item.segment_id>>))
    ELSE Citation("", item.str, "")

RECURSIVE NormalizeItems(_)
NormalizeItems(items) ==
    IF items = <<>> THEN <<>>
    ELSE <<NormalizeItem(Head(items))>> \o NormalizeItems(Tail(items))

\* _normalize_citation(candidate)
NormalizeCitation(candidate) ==
    CASE candidate.kind \in {"list", "wrapped"} -> NormalizeItems(candidate.data)
      [] candidate.kind \in {"dict", "scalar"}  -> NormalizeItems(<<candidate.self>>)
      [] OTHER                                  -> <<>>

\* The keys scanned, in the order of the scan.
TopKeys ==
    <<"citations", "citation", "context", "contexts", "knowledge",
      "knowledge_context", "knowledge_contents", "retriever_resources">>
RagKeys == <<"citations", "contexts">>

\* A response's "metadata": isdict says whether it is an object; top maps the
\* scanned keys to their values; ragdict says whether "rag" is an object and
\* rag maps its two keys to their values.
Metadata(isdict, top, ragdict, rag) ==
    [isdict |-> isdict, top |-> top, ragdict |-> ragdict, rag |-> rag]

\* Lines 134-155: the truthy values, in scan order
RECURSIVE Truthy(_, _)
Truthy(keys, values) ==
    IF keys = <<>> THEN <<>>
    ELSE (IF values[Head(keys)].kind # "none"
          THEN <<values[Head(keys)]>> ELSE <<>>)
         \o Truthy(Tail(keys), values)

Candidates(metadata) ==
    Truthy(TopKeys, metadata.top)
    \o (IF metadata.ragdict THEN Truthy(RagKeys, metadata.rag) ELSE <<>>)

\* Lines 157-159
RECURSIVE NormalizeAll(_)
NormalizeAll(candidates) ==
    IF candidates = <<>> THEN <<>>
    ELSE NormalizeCitation(Head(candidates)) \o NormalizeAll(Tail(candidates))

\* Mutant of Unique: repeats are kept.
UniqueSkipped(entries, seen) == entries

\* Lines 161-169: keep the first entry of every (title, snippet)
RECURSIVE Unique(_, _)
Unique(entries, seen) ==
    IF entries = <<>> THEN <<>>
    ELSE LET key == <<Head(entries).title, Head(entries).snippet>> IN
         IF key \in seen THEN Unique(Tail(entries), seen)
         ELSE <<Head(entries)>> \o Unique(Tail(entries), seen \cup {key})

\* _extract_citations(payload)
ExtractCitations(metadata) ==
    IF ~metadata.isdict THEN <<>>
    ELSE Unique(NormalizeAll(Candidates(metadata)), {})

\* The chat client's part of the state: the metadata of a response received
\* and, once send_message has returned, the citations it returned.
Chat(metadata, done, citations) ==
    [metadata |-> metadata, done |-> done, citations |-> citations]

NoMetadata ==
    Metadata(FALSE, [k \in {TopKeys[i] : i \in 1..Len(TopKeys)} |-> NoValue],
             FALSE, [k \in {RagKeys[i] : i \in 1..Len(RagKeys)} |-> NoValue])
NoChat == Chat(NoMetadata, FALSE, <<>>)

(***************************************************************************)
(* State                                                                   *)
(***************************************************************************)
\* One remote call: its name, the status answered (0: transport failure),
\* whether it raised in the client and, for the summarization call, the
\* answer received.
Call(name, status, raised) ==
    [call |-> name, status |-> status, raised |-> raised,
     answer |-> Answer("empty", "", "", "", "")]

\* The record of one facade call, written when it returns or raises. calls:
\* the remote calls issued, in order; raised: DifyKnowledgeClientError left
\* the call; entry: store_message's result (<<>> for {}); hist:
\* fetch_user_history's; deleted: delete_user_data's; info:
\* get_stored_info_summary's. For a store_message or delete_user_data,
\* before is the segments the store held at the list call (at the call, if
\* there was none) and find what the lookup returned, if it returned.
Last(op, email, role, content, cid, calls, raised, entry, hist, deleted, info) ==
    [op |-> op, email |-> email, role |-> role, content |-> content,
     conversation_id |-> cid, calls |-> calls, raised |-> raised,
     entry |-> entry, hist |-> hist, deleted |-> deleted, info |-> info,
     find |-> FindExistingSegment(<<>>, ""), before |-> <<>>]

NoCall == Last("none", "", "", "", "", <<>>, FALSE, <<>>, <<>>, FALSE, NoData)

\* One call of _parse_summary: the answer, fallback_name and, once it has
\* run (done), whether it raised and what it returned.
Parsing(raw, fallback_name, done, raised, result) ==
    [raw |-> raw, fallback_name |-> fallback_name, done |-> done,
     raised |-> raised, result |-> result]

NoParsing ==
    Parsing(RawAnswer(<<>>, "", "", ""), "", FALSE, FALSE, Result("", "", ""))

NoSession == [phase |-> "off"]

\* The threads that call the client; Main is the one of a session whose
\* calls follow one another.
Writers == {"w1", "w2"}
Main == "w1"

\* The local variables of a store_message or delete_user_data call: its
\* arguments, what the lookup returned (find) from the segments the store
\* held then (before), the decoded record, the entry built, the name merged,
\* the remote calls issued so far, the id of the segment created.
Locals(op, email, role, content, cid, find, before, existing_name, history, calls) ==
    [op |-> op, email |-> email, role |-> role, content |-> content,
     conversation_id |-> cid, find |-> find, before |-> before,
     existing_name |-> existing_name, history |-> history, name |-> "",
     new_entry |-> NoTop, calls |-> calls, created |-> 0]

NoLocals ==
    Locals("", "", "", "", "", FindExistingSegment(<<>>, ""), <<>>, "", <<>>, <<>>)

\* The record of the call with locals l when it ends after one more remote
\* call c.
Ended(l, c, raised, entry, deleted) ==
    [Last(l.op, l.email, l.role, l.content, l.conversation_id,
          Append(l.calls, c), raised, entry, <<>>, deleted, NoData)
     EXCEPT !.find = l.find, !.before = l.before]

\* The client serves one user; the store also holds another user's record,
\* written by an earlier store_message.
Users == {"a@x.com"}

OtherRecord ==
    Segment(91, "b@x.com",
            RecordBlob("b@x.com", "Ann", <<Item(1, "user", "old", "", "c1", "no")>>))

\* Other users' segments listed before it: none, or one less than a full
\* list window (that record is the last segment listed).
ForeignCounts == {0, ListLimit - 1}

Init ==
    /\ segments = <<OtherRecord>>
    /\ foreign \in ForeignCounts
    /\ nextId = 1
    /\ known_names = [e \in Emails |-> Unset]
    /\ summarizer \in BOOLEAN
    /\ now = 1
    /\ last = NoCall
    /\ pc = [w \in Writers |-> "idle"]
    /\ loc = [w \in Writers |-> NoLocals]
    /\ overlap = FALSE
    /\ chat = NoChat
    /\ parsing = NoParsing
    /\ session = NoSession

\* The (role, conversation_id) pairs of the calls.
Turns == {<<"user", "">>, <<"user", "c1">>, <<"assistant", "c1">>}

NoReply == [status |-> 0, answer |-> Answer("empty", "", "", "", "")]
RepliesFor(enabled, replies) == IF enabled THEN replies ELSE {NoReply}

\* The replies of the summarization endpoint tried together with every
\* store failure: a strict-JSON answer and a failed request.
CoreReplies ==
    { r \in SummarizerReplies :
        \/ r.status = 500
        \/ r.answer = Answer("dict", "{..}", "sum", "Bob", "no") }

\* Mutant of SummarizeCalls: a failed summarization request is sent again.
SummarizeCallsRetried(enabled, existing_name, reply) ==
    LET c == [Call("summarize", reply.status,
                   SummarizerSummarize(existing_name, reply).raised)
              EXCEPT !.answer = reply.answer]
    IN IF ~enabled THEN <<>>
       ELSE IF reply.status # 200 THEN <<c, c>> ELSE <<c>>

\* The remote call _summarize makes (line 178), none without a summarizer.
SummarizeCalls(enabled, existing_name, reply) ==
    IF enabled
    THEN <<[Call("summarize", reply.status,
                 SummarizerSummarize(existing_name, reply).raised)
            EXCEPT !.answer = reply.answer]>>
    ELSE <<>>

\* Mutant of Listed: the lookup sees every segment of the document.
ListedAll == segments

\* The segments _find_existing_segment receives (line 206)
Listed == Window(segments, foreign, ListLimit)

\* Mutant of CacheName: store_message does not write the cache.
CacheNameSkipped(names, email, name) == names

\* Line 150: self._known_names[email] = updated_name
CacheName(names, email, name) == [names EXCEPT ![email] = name]

\* Mutant of GetKnownName: the cache is not consulted.
GetKnownNameEmpty(email) == ""

\* get_known_name(email)
GetKnownName(email) ==
    IF known_names[email] = Unset THEN "" ELSE known_names[email]

(***************************************************************************)
(* store_message(email, role, content, conversation_id) in thread w. The   *)
(* call waits on up to four remote requests and holds no lock: the list    *)
(* call, the summarization call, the delete call when a segment was        *)
(* located, the create call. Each step below is the answer to one of them  *)
(* with the computation that follows it, up to the next request; steps of  *)
(* other threads and ticks of the clock may come in between.               *)
(***************************************************************************)
\* What the remote services may answer during one call: the replies of the
\* summarization endpoint, the statuses of the list call, the failures of the
\* delete call (which otherwise answers 204 or 404 as the store holds the
\* segment or not) and the statuses of the create call.
CoreEnv ==
    [replies |-> CoreReplies, list |-> ListStatuses, delete |-> DeleteFaults,
     create |-> CreateStatuses]

\* Every reply of the summarization endpoint, with a store that works.
SummEnv ==
    [replies |-> SummarizerReplies, list |-> {200}, delete |-> {},
     create |-> {200}]

\* Mutant of EmptyContent: no content counts as empty.
EmptyContentNever(content) == FALSE

\* Line 119: `if not content`
EmptyContent(content) == content = ""

\* Mutant of ReplaceKept: the located segment is not deleted.
ReplaceKeptNoDelete(segs, find) == segs

\* Lines 152-164 with _replace_segment: what the store holds when the create
\* call is issued. A located segment has been deleted, nothing else.
ReplaceKept(segs, find) ==
    IF find.found THEN Without(segs, find.segment.id) ELSE segs

\* A store_message of thread w is between its list call and its return.
InFlight(w) == loc[w].op = "store" /\ pc[w] \in {"summarize", "delete", "create"}

\* A call returns or raises with record r at time t.
Return(r, t) == last' = r /\ now' = t

\* Lines 119-133: the call, made at time t when the record of the last call
\* was l0, the lookup and the decoding of the located record. K(r, t) is what
\* follows the call when it ends here with record r at time t.
WListK(w, email, role, content, cid, env, t, l0, K(_, _)) ==
    /\ pc[w] = "idle"
    /\ UNCHANGED <<segments, foreign, nextId, known_names, summarizer, chat, parsing>>
    /\ \/ \* line 119: empty content
          /\ EmptyContent(content)
          /\ UNCHANGED <<pc, loc, overlap>>
          /\ K([Last("store", email, role, content, cid, <<>>, FALSE,
                     <<>>, <<>>, FALSE, NoData)
                EXCEPT !.before = segments], t)
       \/ \* lines 122-127: the lookup raises
          /\ ~EmptyContent(content)
          /\ UNCHANGED <<pc, loc, overlap>>
          /\ \E st \in env.list :
                /\ LookupRaises(st)
                /\ K([Last("store", email, role, content, cid,
                           <<Call("list", st, TRUE)>>, TRUE,
                           <<>>, <<>>, FALSE, NoData)
                      EXCEPT !.before = segments], t)
       \/ \* lines 129-133
          /\ ~EmptyContent(content)
          /\ nextId <= MaxSegs
          /\ \E st \in env.list : ~LookupRaises(st)
          /\ LET find == FindExistingSegment(Listed, email) IN
             \E reads \in ClockReads(t, StoreClockNeeded(find)) :
                LET parsed == ExistingRecord(find, reads) IN
                /\ Len(parsed.history) < MaxHist
                /\ loc' = [loc EXCEPT ![w] =
                             Locals("store", email, role, content, cid, find,
                                    segments, parsed.name, parsed.history,
                                    <<Call("list", 200, FALSE)>>)]
                /\ now' = ClockAfter(t, reads)
          /\ pc' = [pc EXCEPT ![w] = "summarize"]
          /\ overlap' = (overlap \/ \E o \in Writers \ {w} : InFlight(o))
          /\ last' = l0

\* store_message called by thread w, up to the summarization request.
WList(w, email, role, content, cid, env) ==
    WListK(w, email, role, content, cid, env, now, last, Return)

\* Lines 135-150: the summarization call, the new entry, the name cache.
WSummarize(w, env) ==
    /\ pc[w] = "summarize"
    /\ \E reply \in RepliesFor(summarizer, env.replies) :
          LET l == loc[w]
              p == PrepareRecord(l.existing_name, l.history, summarizer, l.role,
                                 l.content, l.conversation_id, reply, now)
          IN /\ known_names' = CacheName(known_names, l.email, p.updated_name)
             /\ loc' = [loc EXCEPT ![w] =
                          [l EXCEPT !.history = p.history,
                                    !.name = p.updated_name,
                                    !.new_entry = p.new_entry,
                                    !.calls = @ \o SummarizeCalls(summarizer,
                                                     l.existing_name, reply)]]
    /\ pc' = [pc EXCEPT ![w] = IF loc[w].find.found THEN "delete" ELSE "create"]
    /\ UNCHANGED <<segments, foreign, nextId, summarizer, chat, parsing, now, last,
                   overlap>>

\* Lines 152-158 and 311: _delete_segment(segment["id"]). The store answers
\* 204, or 404 when the segment is gone; neither raises. K as in WListK.
WDeleteK(w, env, K(_, _)) ==
    /\ pc[w] = "delete"
    /\ UNCHANGED <<foreign, nextId, known_names, summarizer, chat, parsing, overlap>>
    /\ LET l == loc[w]
           delSt == StoreDeleteStatus(segments, l.find.segment.id)
       IN \/ \* _delete_segment raises
             /\ pc' = [pc EXCEPT ![w] = "idle"]
             /\ UNCHANGED <<segments, loc>>
             /\ \E st \in env.delete :
                   /\ DeleteRaises(st)
                   /\ K(Ended(l, Call("delete", st, TRUE), TRUE, <<>>, FALSE), now)
          \/ /\ ~DeleteRaises(delSt)
             /\ segments' = ReplaceKept(segments, l.find)
             /\ loc' = [loc EXCEPT ![w].calls = Append(@, Call("delete", delSt, FALSE))]
             /\ pc' = [pc EXCEPT ![w] = "create"]
             /\ UNCHANGED <<last, now>>

WDelete(w, env) == WDeleteK(w, env, Return)

\* Lines 160-166 and 312: _create_new_entry(email, history, name), then the
\* return of the new entry. K as in WListK.
WCreateK(w, env, K(_, _)) ==
    /\ pc[w] = "create"
    /\ UNCHANGED <<foreign, known_names, summarizer, chat, parsing, overlap>>
    /\ pc' = [pc EXCEPT ![w] = "idle"]
    /\ LET l == loc[w] IN
       \E st \in env.create :
          \/ \* _create_new_entry raises
             /\ CreateRaises(st)
             /\ UNCHANGED <<segments, nextId, loc>>
             /\ K(Ended(l, Call("create", st, TRUE), TRUE, <<>>, FALSE), now)
          \/ \* the record is persisted
             /\ ~CreateRaises(st)
             /\ segments' = StoreCreate(segments, nextId, l.email,
                                        RecordBlob(l.email, l.name, l.history))
             /\ nextId' = nextId + 1
             /\ loc' = [loc EXCEPT ![w].created = nextId]
             /\ K(Ended(l, Call("create", st, FALSE), FALSE, <<l.new_entry>>, FALSE),
                  now)

WCreate(w, env) == WCreateK(w, env, Return)

(***************************************************************************)
(* fetch_user_history(email), default limit                                *)
(***************************************************************************)
\* One blocking request (line 397), then the decoding of its answer.
FetchUserHistory(email) ==
    /\ UNCHANGED <<segments, foreign, nextId, summarizer, chat, parsing, pc, loc, overlap>>
    /\ \E st \in ListStatuses :
          \/ /\ FetchRaises(st)
             /\ last' = Last("fetch", email, "", "", "", <<Call("list", st, TRUE)>>, TRUE,
                             <<>>, <<>>, FALSE, NoData)
             /\ UNCHANGED <<known_names, now>>
          \/ /\ ~FetchRaises(st)
             /\ FetchReturnsEmpty(st)
             /\ last' = Last("fetch", email, "", "", "", <<Call("list", st, FALSE)>>, FALSE,
                             <<>>, <<>>, FALSE, NoData)
             /\ UNCHANGED <<known_names, now>>
          \/ /\ ~FetchRaises(st)
             /\ ~FetchReturnsEmpty(st)
             /\ \E reads \in ClockReads(now, FetchClockNeeded(Listed, email)) :
                   /\ last' = Last("fetch", email, "", "", "",
                                   <<Call("list", st, FALSE)>>, FALSE, <<>>,
                                   SortByTimestamp(CombinedHistory(Listed, email, reads)),
                                   FALSE, NoData)
                   /\ now' = ClockAfter(now, reads)
             /\ known_names' = [known_names EXCEPT ![email] =
                                  FetchedName(Listed, email, known_names[email])]

(***************************************************************************)
(* delete_user_data(email) in thread w: the lookup, then the delete call,  *)
(* two remote requests with no lock held.                                  *)
(***************************************************************************)
\* Lines 479-487: the call, made at time t when the record of the last call
\* was l0, and the lookup; the call ends here when it raises or locates
\* nothing. K as in WListK.
DListK(w, email, env, t, l0, K(_, _)) ==
    /\ pc[w] = "idle"
    /\ UNCHANGED <<segments, foreign, nextId, known_names, summarizer, chat, parsing,
                   overlap>>
    /\ \/ \* the lookup raises
          /\ UNCHANGED <<pc, loc>>
          /\ \E st \in env.list :
                /\ LookupRaises(st)
                /\ K([Last("delete", email, "", "", "",
                           <<Call("list", st, TRUE)>>, TRUE,
                           <<>>, <<>>, FALSE, NoData)
                      EXCEPT !.before = segments], t)
       \/ \* line 486: no segment
          /\ ~FindExistingSegment(Listed, email).found
          /\ UNCHANGED <<pc, loc>>
          /\ K([Last("delete", email, "", "", "", <<Call("list", 200, FALSE)>>, FALSE,
                     <<>>, <<>>, FALSE, NoData)
                EXCEPT !.before = segments], t)
       \/ \* a segment is located
          /\ FindExistingSegment(Listed, email).found
          /\ loc' = [loc EXCEPT ![w] =
                       Locals("delete", email, "", "", "",
                              FindExistingSegment(Listed, email), segments, "", <<>>,
                              <<Call("list", 200, FALSE)>>)]
          /\ pc' = [pc EXCEPT ![w] = "purge"]
          /\ last' = l0 /\ now' = t

\* delete_user_data called by thread w, up to the delete request.
DList(w, email, env) == DListK(w, email, env, now, last, Return)

\* Lines 489-492: _delete_segment(segment["id"]), the name dropped from the
\* cache, True returned. K as in WListK.
DDeleteK(w, env, K(_, _)) ==
    /\ pc[w] = "purge"
    /\ UNCHANGED <<foreign, nextId, summarizer, chat, parsing, loc, overlap>>
    /\ pc' = [pc EXCEPT ![w] = "idle"]
    /\ LET l == loc[w]
           st == StoreDeleteStatus(segments, l.find.segment.id)
       IN \/ \* _delete_segment raises
             /\ UNCHANGED <<segments, known_names>>
             /\ \E f \in env.delete :
                   /\ DeleteRaises(f)
                   /\ K(Ended(l, Call("delete", f, TRUE), TRUE, <<>>, FALSE), now)
          \/ /\ ~DeleteRaises(st)
             /\ segments' = Without(segments, l.find.segment.id)
             /\ known_names' = [known_names EXCEPT ![l.email] = Unset]
             /\ K(Ended(l, Call("delete", st, FALSE), FALSE, <<>>, TRUE), now)

DDelete(w, env) == DDeleteK(w, env, Return)

(***************************************************************************)
(* get_stored_info_summary(email)                                          *)
(***************************************************************************)
\* One blocking request (the lookup's), then the decoding of its answer.
\* What a call made at time t may come to, the store holding segs and the
\* list call answering with one of statuses: the record of the call and the
\* time at its end.
StoredInfoOutcomes(email, segs, t, statuses) ==
    { [last |-> Last("info", email, "", "", "", <<Call("list", st, TRUE)>>, TRUE,
                     <<>>, <<>>, FALSE, NoData),
       now |-> t] : st \in {x \in statuses : LookupRaises(x)} }
    \cup
    UNION { { [last |-> Last("info", email, "", "", "",
                            <<Call("list", 200, FALSE)>>, FALSE, <<>>, <<>>,
                            FALSE, StoredInfo(find, reads)),
               now |-> ClockAfter(t, reads)] :
              reads \in ClockReads(t, InfoClockNeeded(find)) } :
            find \in {FindExistingSegment(Window(segs, foreign, ListLimit), email)} }

GetStoredInfoSummary(email) ==
    /\ UNCHANGED <<segments, foreign, nextId, known_names, summarizer, chat, parsing,
                   pc, loc, overlap>>
    /\ \E o \in StoredInfoOutcomes(email, segments, now, ListStatuses) :
          last' = o.last /\ now' = o.now

\* A second passes on the wall clock.
Tick ==
    /\ now < MaxClock
    /\ now' = now + 1
    /\ UNCHANGED <<segments, foreign, nextId, known_names, summarizer, chat, parsing, session, last,
                   pc, loc, overlap>>

\* The facade called directly, outside a chat session, by one thread: a
\* call is made when the one before has returned.
Idle == pc[Main] = "idle"

Store ==
    /\ \E e \in Users, t \in Turns, c \in Contents :
          WList(Main, e, t[1], c, t[2], CoreEnv)
    /\ UNCHANGED session
Summarized == WSummarize(Main, CoreEnv) /\ UNCHANGED session
Replaced == WDelete(Main, CoreEnv) /\ UNCHANGED session
Created == WCreate(Main, CoreEnv) /\ UNCHANGED session
Fetch == Idle /\ (\E e \in Users : FetchUserHistory(e)) /\ UNCHANGED session
Delete == (\E e \in Users : DList(Main, e, CoreEnv)) /\ UNCHANGED session
Purged == DDelete(Main, CoreEnv) /\ UNCHANGED session
Summary == Idle /\ (\E e \in Users : GetStoredInfoSummary(e)) /\ UNCHANGED session

\* The steps of a store_message of the one thread, the services answering
\* as env says.
StoreSteps(env) ==
    /\ WSummarize(Main, env) \/ WDelete(Main, env) \/ WCreate(Main, env)
    /\ UNCHANGED session

Next ==
    Store \/ Summarized \/ Replaced \/ Created \/ Fetch \/ Delete \/ Purged
    \/ Summary \/ Tick

Spec == Init /\ [][Next]_vars

(***************************************************************************)
(* Calls for the same email running concurrently in two threads of one     *)
(* client. No lock serializes them: the remote calls of a store_message    *)
(* (list, summarize, delete, create) and of a delete_user_data (list,      *)
(* delete) interleave freely with those of the other thread, and           *)
(* fetch_user_history and get_stored_info_summary, one request each, may   *)
(* come at any point. Each thread first makes one call; when both have     *)
(* returned, the calls of the session follow one another. Here no remote   *)
(* call fails and the summarizer is off.                                   *)
(***************************************************************************)
OwnRecord ==
    Segment(92, "a@x.com",
            RecordBlob("a@x.com", "", <<Item(1, "assistant", "old", "", "c1", "")>>))

WriterContent(w) == IF w = "w1" THEN "hello" ELSE "again"

\* Each thread has made a call that went past its lookup, and has returned.
AllDone == \A w \in Writers : pc[w] = "idle" /\ loc[w] # NoLocals

\* A thread may call: it has not yet, or both have returned and it is the
\* session's.
MayCall(w) == pc[w] = "idle" /\ (loc[w] = NoLocals \/ (AllDone /\ w = Main))

ConcEnv ==
    [replies |-> CoreReplies, list |-> {200}, delete |-> {}, create |-> {200}]

InitConc ==
    /\ segments \in {<<OtherRecord>>, <<OtherRecord, OwnRecord>>}
    /\ foreign = 0
    /\ nextId = 1
    /\ known_names = [e \in Emails |-> Unset]
    /\ summarizer = FALSE
    /\ now = 1
    /\ last = NoCall
    /\ pc = [w \in Writers |-> "idle"]
    /\ loc = [w \in Writers |-> NoLocals]
    /\ overlap = FALSE
    /\ chat = NoChat
    /\ parsing = NoParsing
    /\ session = NoSession

ConcList ==
    /\ \E w \in Writers, e \in Users, t \in Turns :
          /\ loc[w] = NoLocals
          /\ WList(w, e, t[1], WriterContent(w), t[2], ConcEnv)
    /\ UNCHANGED session
ConcSummarize == (\E w \in Writers : WSummarize(w, ConcEnv)) /\ UNCHANGED session
ConcDelete == (\E w \in Writers : WDelete(w, ConcEnv)) /\ UNCHANGED session
ConcCreate == (\E w \in Writers : WCreate(w, ConcEnv)) /\ UNCHANGED session
ConcDeleteData ==
    /\ \E w \in Writers, e \in Users : MayCall(w) /\ DList(w, e, ConcEnv)
    /\ UNCHANGED session
ConcPurge == (\E w \in Writers : DDelete(w, ConcEnv)) /\ UNCHANGED session
ConcFetch == (\E e \in Users : FetchUserHistory(e)) /\ UNCHANGED session
ConcSummary == (\E e \in Users : GetStoredInfoSummary(e)) /\ UNCHANGED session

NextConc ==
    ConcList \/ ConcSummarize \/ ConcDelete \/ ConcCreate \/ ConcDeleteData
    \/ ConcPurge \/ ConcFetch \/ ConcSummary \/ Tick

SpecConc == InitConc /\ [][NextConc]_vars

(***************************************************************************)
(* The summarizer at work: one writer, the summarizer configured, every    *)
(* reply of the summarization endpoint, on a store that holds no record of *)
(* the user or one with a known name.                                      *)
(***************************************************************************)
NamedRecord ==
    Segment(92, "a@x.com",
            RecordBlob("a@x.com", "Ann", <<Item(1, "assistant", "old", "", "c1", "")>>))

InitSumm ==
    /\ segments \in {<<OtherRecord>>, <<OtherRecord, NamedRecord>>}
    /\ foreign \in ForeignCounts
    /\ nextId = 1
    /\ known_names = [e \in Emails |-> Unset]
    /\ summarizer \in BOOLEAN
    /\ now = 1
    /\ last = NoCall
    /\ pc = [w \in Writers |-> "idle"]
    /\ loc = [w \in Writers |-> NoLocals]
    /\ overlap = FALSE
    /\ chat = NoChat
    /\ parsing = NoParsing
    /\ session = NoSession

StoreSumm ==
    /\ \E e \in Users, t \in Turns \ {<<"user", "c1">>}, c \in Contents :
          WList(Main, e, t[1], c, t[2], SummEnv)
    /\ UNCHANGED session

NextSumm == StoreSumm \/ StoreSteps(SummEnv) \/ Fetch \/ Tick

SpecSumm == InitSumm /\ [][NextSumm]_vars

(***************************************************************************)
(* A document that also holds segments this client did not write: records  *)
(* in the legacy flat shape, content that is no JSON object, segments      *)
(* without metadata.user_email or with another email in it. One client     *)
(* works on it, summarizer off, no remote failure in store_message.        *)
(***************************************************************************)
LegacyRecord ==
    Segment(81, "a@x.com",
            Payload("dict", "a@x.com", "Ann", FALSE, <<>>,
                    Item(2, "assistant", "s", "", "c1", "")))

\* A "history" list out of timestamp order with an item that is no object.
ListRecord ==
    Segment(82, "a@x.com",
            Payload("dict", "a@x.com", "", TRUE,
                    <<Item(2, "user", "q2", "", "", "no"), NonDictItem,
                      Item(1, "user", "", "q1", "c1", "")>>,
                    NoTop))

UnparseableRecord == Segment(83, "a@x.com", InvalidJson)
NonObjectRecord == Segment(84, "a@x.com", NonDictJson)

\* No metadata.user_email: the email is in the content only.
NoMetaRecord ==
    Segment(85, "",
            RecordBlob("a@x.com", "Ann", <<Item(1, "user", "m1", "", "", "yes")>>))

\* metadata.user_email names another user than the content does.
MismatchRecord ==
    Segment(86, "b@x.com",
            RecordBlob("a@x.com", "", <<Item(2, "user", "x", "", "", "")>>))

\* More user entries than get_stored_info_summary samples, one of them
\* without a summary.
LongRecord ==
    Segment(87, "a@x.com",
            RecordBlob("a@x.com", "Ann",
                       <<Item(2, "user", "t1", "", "", "yes"),
                         Item(1, "user", "", "", "", ""),
                         Item(1, "assistant", "r", "", "", ""),
                         Item(2, "user", "t2", "", "", "no"),
                         Item(2, "user", "t3", "", "", "yes"),
                         Item(2, "user", "t4", "", "", "yes")>>))

\* A history persisted out of timestamp order: the newest entry comes
\* first.
ShuffledRecord ==
    Segment(88, "a@x.com",
            RecordBlob("a@x.com", "",
                       <<Item(2, "user", "n1", "", "", ""),
                         Item(1, "user", "o1", "", "", ""),
                         Item(1, "user", "o2", "", "", ""),
                         Item(1, "user", "o3", "", "", "")>>))

\* A JSON object that holds none of the keys the client reads.
UnknownKeysRecord ==
    Segment(89, "a@x.com", Payload("dict", "", "", FALSE, <<>>, NoTop))

\* Two items without a timestamp, the first with a "role" that is present
\* and empty.
UntimedRecord ==
    Segment(90, "a@x.com",
            RecordBlob("a@x.com", "",
                       <<Item(0, "", "e1", "", "", ""),
                         Item(0, "user", "e2", "", "", "")>>))

StoredShapes ==
    {LegacyRecord, ListRecord, UnparseableRecord, NonObjectRecord,
     NoMetaRecord, MismatchRecord, LongRecord, ShuffledRecord, OtherRecord,
     UnknownKeysRecord, UntimedRecord}

InitStored ==
    /\ segments \in {<<x>> : x \in StoredShapes}
                    \cup {p \in StoredShapes \X StoredShapes : p[1] # p[2]}
    /\ foreign = 0
    /\ nextId = 1
    /\ known_names = [e \in Emails |-> Unset]
    /\ summarizer = FALSE
    /\ now = 1
    /\ last = NoCall
    /\ pc = [w \in Writers |-> "idle"]
    /\ loc = [w \in Writers |-> NoLocals]
    /\ overlap = FALSE
    /\ chat = NoChat
    /\ parsing = NoParsing
    /\ session = NoSession

StoreStored ==
    /\ \E e \in Users, t \in Turns \ {<<"user", "">>}, c \in Contents :
          WList(Main, e, t[1], c, t[2], SummEnv)
    /\ UNCHANGED session

NextStored ==
    StoreStored \/ StoreSteps(SummEnv) \/ Fetch \/ Delete \/ Purged \/ Summary
    \/ Tick

SpecStored == InitStored /\ [][NextStored]_vars

(***************************************************************************)
(* The chat client receives one response and extracts its citations.       *)
(***************************************************************************)
\* Two entries with the same title and snippet and different sources, read
\* from different keys, and one with another title.
CiteA == RawCitation("S", "", "T", "", "u1", "")
CiteB == RawCitation("", "S", "", "T", "", "u2")
CiteC == RawCitation("S", "", "T2", "", "", "")

Values ==
    { NoValue,
      Value("list", <<CiteA>>, ScalarCitation("")),
      Value("list", <<CiteB, CiteC, ScalarCitation("S")>>, ScalarCitation("")),
      Value("wrapped", <<CiteC, CiteA>>, ScalarCitation("")),
      Value("dict", <<>>, CiteB),
      Value("scalar", <<>>, ScalarCitation("S")) }

\* The responses received: metadata that is no object, and objects with
\* values under "citations", "retriever_resources" and "rag".
Responses ==
    {NoMetadata}
    \cup { Metadata(TRUE,
                    [NoMetadata.top EXCEPT !["citations"] = v[1],
                                           !["retriever_resources"] = v[2]],
                    r,
                    [NoMetadata.rag EXCEPT !["contexts"] = v[3]]) :
           v \in Values \X Values \X Values, r \in BOOLEAN }

InitCite ==
    /\ segments = <<OtherRecord>>
    /\ foreign = 0
    /\ nextId = 1
    /\ known_names = [e \in Emails |-> Unset]
    /\ summarizer = FALSE
    /\ now = 1
    /\ last = NoCall
    /\ pc = [w \in Writers |-> "idle"]
    /\ loc = [w \in Writers |-> NoLocals]
    /\ overlap = FALSE
    /\ chat \in {Chat(m, FALSE, <<>>) : m \in Responses}
    /\ parsing = NoParsing
    /\ session = NoSession

\* send_message, lines 114-126: the citations of the response
SendMessage ==
    /\ ~chat.done
    /\ chat' = Chat(chat.metadata, TRUE, ExtractCitations(chat.metadata))
    /\ UNCHANGED <<segments, foreign, nextId, known_names, summarizer, now,
                   last, pc, loc, overlap, parsing, session>>

NextCite == SendMessage

SpecCite == InitCite /\ [][NextCite]_vars

(***************************************************************************)
(* The summarizer parses one answer of the completion endpoint.            *)
(***************************************************************************)
\* What the answer starts with, holds and ends with.
Openings ==
    { <<>>, <<"\n">>, <<Fence>>, <<Fence, "\n">>, <<Fence, "json", "\n">>,
      <<Fence, "json">>, <<Fence, Fence>>, <<"json", "\n">> }
Bodies ==
    { <<>>, <<"{..}">>, <<"[1]">>, <<"words">>, <<"{..}", "{..}">>,
      <<"words", "\n", "words">> }
Closings ==
    { <<>>, <<"\n">>, <<Fence>>, <<"\n", Fence>>, <<Fence, "\n">>,
      <<"\n", Fence, "words">> }

RawAnswers ==
    { RawAnswer(o \o b \o c, f[1], f[2], f[3]) :
        o \in Openings, b \in Bodies, c \in Closings,
        f \in {<<"sum", "Bob", "no">>, <<"", "", " No ">>} }

InitParse ==
    /\ segments = <<OtherRecord>>
    /\ foreign = 0
    /\ nextId = 1
    /\ known_names = [e \in Emails |-> Unset]
    /\ summarizer = TRUE
    /\ now = 1
    /\ last = NoCall
    /\ pc = [w \in Writers |-> "idle"]
    /\ loc = [w \in Writers |-> NoLocals]
    /\ overlap = FALSE
    /\ chat = NoChat
    /\ parsing \in {Parsing(r, n, FALSE, FALSE, Result("", "", "")) :
                      r \in RawAnswers, n \in {"", "Ann"}}
    /\ session = NoSession

\* _parse_summary(answer, fallback_name)
ParseAnswer ==
    /\ ~parsing.done
    /\ LET r == ParseRawSummary(parsing.raw, parsing.fallback_name) IN
       parsing' = Parsing(parsing.raw, parsing.fallback_name, TRUE,
                          r.raised, r.result)
    /\ UNCHANGED <<segments, foreign, nextId, known_names, summarizer, now,
                   last, pc, loc, overlap, chat, session>>

NextParse == ParseAnswer

SpecParse == InitParse /\ [][NextParse]_vars

(***************************************************************************)
(* The chat session (streamlit_app.py). One browser session of one user:   *)
(* st.session_state, the agent's conversation id, and the position of the  *)
(* script run in progress. main() runs once per user action; the run of a  *)
(* chat prompt goes through the user's turn being appended and stored, the *)
(* agent being called and its reply rendered, and the reply being appended *)
(* and stored, each store_message taking its remote calls one at a time;   *)
(* the run ends with st.rerun(), which runs main() again at once, up to    *)
(* its first call or the prompt. The two privacy handlers are reached      *)
(* through a prompt, which appends the user's message, calls the handler   *)
(* and appends its text, or through the sidebar, which appends nothing:    *)
(* while the panel opened by "View My Data" is open every run calls        *)
(* _handle_data_info_request, and "Yes, Delete" calls                      *)
(* _handle_delete_data_request. Every request of the client or the agent   *)
(* is a step of its own: in a step the script makes the request it has     *)
(* come to, gets the answer and goes on up to its next call, and the phase *)
(* of the session tells which call that is. A button is pressed or a       *)
(* prompt submitted between runs, when no call is in progress; the step    *)
(* takes the run up to and with its first request.                         *)
(***************************************************************************)
MaxMessages == 6   \* longest list of messages a run may start from, plus 2
MaxClicks == 3     \* sidebar buttons pressed in one behaviour

UserEmail == "a@x.com"
Prompts == {"hello", "what data", "delete my data"}

\* _is_data_info_request, _is_delete_data_request on the prompts above
IsDataInfoRequest(prompt) == prompt = "what data"
IsDeleteDataRequest(prompt) == prompt = "delete my data"

\* One entry of st.session_state.messages; an absent key is "" or <<>>.
Message(role, content, cid, citations, show_sources, fallback_to_web) ==
    [role |-> role, content |-> content, conversation_id |-> cid,
     citations |-> citations, show_sources |-> show_sources,
     fallback_to_web |-> fallback_to_web]

\* AgentResponse, with the message agent.run was given
Response(prompt, answer, cid, citations) ==
    [prompt |-> prompt, answer |-> answer, conversation_id |-> cid,
     citations |-> citations]

NoResponse == Response("", "", "", <<>>)

\* What agent.run may do: raise (ok = FALSE), return an empty answer with no
\* citation, or return an answer with the conversation id and a citation.
AgentOutcomes ==
    { [ok |-> FALSE, answer |-> "", citations |-> <<>>],
      [ok |-> TRUE, answer |-> "", citations |-> <<>>],
      [ok |-> TRUE, answer |-> "reply",
       citations |-> <<Citation("T", "S", "http://u")>>] }

\* _ensure_session_state, with the email entered; configured: the
\* environment holds the knowledge configuration. issued: the calls of the
\* knowledge client issued since the user's last action or the agent's
\* answer; show_data_info, confirm_delete, delete_result: the
\* sidebar's _show_data_info, _confirm_delete and _delete_result ("" for
\* None or unset); button, input: the button pressed and the prompt
\* submitted in the run in progress, until they have acted; clicks: the
\* sidebar buttons pressed so far.
NewSession(configured) ==
    [phase |-> "new", configured |-> configured,
     knowledge_available |-> TRUE, knowledge_client |-> FALSE,
     history_loaded |-> FALSE, messages |-> <<>>,
     pending_hie_related |-> TRUE, context_history |-> <<>>,
     user_name |-> "", greeted |-> FALSE, consent_shown |-> FALSE,
     conversation_id |-> "", prompt |-> "", response |-> NoResponse,
     issued |-> <<>>, rendered |-> <<>>,
     show_data_info |-> FALSE, confirm_delete |-> FALSE, delete_result |-> "",
     button |-> "", input |-> "", clicks |-> 0]

\* _render_citations(citations, fallback_to_web): the sources listed under
\* the caption, <<>> when nothing is rendered.
IsLink(source) == source \in {"http://u", "doc.pdf"}

DisplayValue(citation, n) ==
    LET v == IF citation.source # "" /\ IsLink(citation.source)
             THEN citation.source
             ELSE IF citation.title # "" THEN citation.title
             ELSE citation.source
    IN IF v = "" THEN "Source " \o ToString(n + 1) ELSE v

RECURSIVE OrderedSources(_, _)
OrderedSources(citations, acc) ==
    IF citations = <<>> THEN acc
    ELSE LET v == DisplayValue(Head(citations), Len(acc)) IN
         OrderedSources(Tail(citations),
                        IF \E i \in 1..Len(acc) : acc[i] = v THEN acc
                        ELSE Append(acc, v))

RenderCitations(citations, fallback_to_web) ==
    LET found == OrderedSources(citations, <<>>) IN
    IF found = <<>> /\ fallback_to_web THEN <<"Web">> ELSE found

\* _sync_agent_conversation: the newest conversation id on record
RECURSIVE LastConversationId(_, _)
LastConversationId(entries, default) ==
    IF entries = <<>> THEN default
    ELSE IF entries[Len(entries)].conversation_id # ""
         THEN entries[Len(entries)].conversation_id
         ELSE LastConversationId(SubSeq(entries, 1, Len(entries) - 1), default)

SyncAgentConversation(s) ==
    [s EXCEPT !.conversation_id =
        LastConversationId(s.context_history \o s.messages, @)]

\* Lines 802-842: the greeting of a returning user or the consent notice
Welcome(s) ==
    IF s.history_loaded /\ s.context_history # <<>> /\ ~s.greeted
    THEN [s EXCEPT !.messages =
                      <<Message("assistant", "greeting", "", <<>>, FALSE, FALSE)>> \o @,
                   !.greeted = TRUE, !.consent_shown = TRUE]
    ELSE IF s.history_loaded /\ s.context_history = <<>> /\ ~s.consent_shown
    THEN [s EXCEPT !.messages =
                      <<Message("assistant", "consent", "", <<>>, FALSE, FALSE)>> \o @,
                   !.consent_shown = TRUE]
    ELSE s

\* The element of a set of one: The({F(x) : x \in {e}}) is F(e), with e
\* evaluated once.
The(S) == CHOOSE x \in S : TRUE

\* Lines 795-842 of a run after the first: the client exists or is disabled
\* and the history is loaded, so only the sync and the welcome act.
RunStart(s) == The({Welcome(s1) : s1 \in {SyncAgentConversation(s)}})

\* The variables of the knowledge client and its store.
clientVars ==
    <<segments, foreign, nextId, known_names, summarizer, now, last, pc, loc,
      overlap, chat, parsing>>

\* What the remote services may answer during a session: as CoreEnv, with
\* one failure of each request.
UIEnv ==
    [replies |-> CoreReplies, list |-> {200, 500}, delete |-> {500},
     create |-> {200, 500}]

\* The same without the clock and the record of the last call.
storeVars ==
    <<segments, foreign, nextId, known_names, summarizer, pc, loc, overlap,
      chat, parsing>>

\* Lines 538 and 592 (and 411-416): the handlers reach the client only when
\* it exists and persistence is available.
Persisting(s) == s.knowledge_client /\ s.knowledge_available

\* st.rerun(): main() runs again at once with no button pressed and no
\* prompt, from line 795 up to the request of the open panel (line 864) or,
\* with no request to make, to the chat input (line 914).
Rerun(s) ==
    The({IF s1.show_data_info /\ Persisting(s1)
         THEN [s1 EXCEPT !.phase = "panel"]
         ELSE [s1 EXCEPT !.phase = "ready"] :
         s1 \in {RunStart([s EXCEPT !.button = "", !.input = ""])}})

\* Mutant of AfterFetch: a failed fetch leaves persistence enabled.
AfterFetchStaysOn(s, l, stored_name) ==
    IF l.raised THEN [s EXCEPT !.history_loaded = TRUE]
    ELSE [s EXCEPT !.context_history = l.hist, !.messages = <<>>,
                   !.greeted = FALSE,
                   !.user_name = IF stored_name # "" THEN stored_name ELSE @,
                   !.history_loaded = TRUE]

\* _load_history_from_knowledge, lines 460-479, from the call's outcome
AfterFetch(s, l, stored_name) ==
    IF l.raised
    THEN [s EXCEPT !.knowledge_available = FALSE, !.history_loaded = TRUE]
    ELSE [s EXCEPT !.context_history = l.hist, !.messages = <<>>,
                   !.greeted = FALSE,
                   !.user_name = IF stored_name # "" THEN stored_name ELSE @,
                   !.history_loaded = TRUE]

\* The first run of main() once the email is entered: no prompt yet, no
\* panel open. _ensure_knowledge_client, _load_history_from_knowledge, sync,
\* welcome.
FirstRun ==
    /\ session.phase = "new"
    /\ IF ~session.configured
       THEN /\ session' = Welcome(SyncAgentConversation(
                             [session EXCEPT !.knowledge_available = FALSE,
                                             !.history_loaded = TRUE,
                                             !.phase = "ready",
                                             !.issued = <<>>]))
            /\ UNCHANGED clientVars
       ELSE /\ FetchUserHistory(UserEmail)
            /\ session' = Welcome(SyncAgentConversation(
                             AfterFetch([session EXCEPT !.knowledge_client = TRUE,
                                                        !.phase = "ready",
                                                        !.issued = <<"fetch_user_history">>],
                                        last', GetKnownName(UserEmail)')))

\* The run goes on after _append_message has returned: to the request of
\* the agent after the user's turn, to st.rerun() (line 980) after the reply.
Proceed(s, role) ==
    IF role = "user" THEN [s EXCEPT !.phase = "asked"]
    ELSE Rerun(s)

\* Mutant of AfterStore: the store error is not caught and ends the run.
AfterStoreUncaught(s, role, l, stored_name) ==
    IF l.raised THEN [s EXCEPT !.phase = "ready"]
    ELSE Proceed(
           [s EXCEPT !.user_name = IF stored_name # "" THEN stored_name ELSE @,
                     !.context_history = @ \o l.entry,
                     !.pending_hie_related =
                         IF role # "user" THEN @
                         ELSE IF l.entry = <<>> THEN TRUE
                         ELSE StripLower(l.entry[1].question_hie_related) \in {"yes", ""}],
           role)

\* _append_message, lines 424-445, from the outcome of store_message
AfterStore(s, role, l, stored_name) ==
    IF l.raised
    THEN Proceed([s EXCEPT !.knowledge_available = FALSE,
                           !.pending_hie_related = IF role = "user" THEN TRUE ELSE @],
                 role)
    ELSE Proceed(
           [s EXCEPT !.user_name = IF stored_name # "" THEN stored_name ELSE @,
                     !.context_history = @ \o l.entry,
                     !.pending_hie_related =
                         IF role # "user" THEN @
                         ELSE IF l.entry = <<>> THEN TRUE
                         ELSE StripLower(l.entry[1].question_hie_related) \in {"yes", ""}],
           role)

\* _append_message(role, content, conversation_id, citations,
\* show_citations, fallback_to_web) in session state s, lines 390-423: the
\* message is appended; without persistence the function returns, otherwise
\* it comes to the call of store_message (line 425).
AppendMessage(s, role, content, cid, citations, show_citations, fallback_to_web) ==
    LET s1 == [s EXCEPT !.messages =
                   Append(@, Message(role, content, cid, citations,
                                     show_citations, fallback_to_web))]
    IN IF ~Persisting(s1)
       THEN Proceed([s1 EXCEPT !.pending_hie_related =
                                   IF role = "user" THEN TRUE ELSE @],
                    role)
       ELSE [s1 EXCEPT !.phase = "appending"]

\* Line 425: store_message is called with the message just appended, up to
\* its summarization request; lines 424-445 follow when it ends here.
StoreList(s) ==
    LET m == s.messages[Len(s.messages)]
        s2 == [s EXCEPT !.issued = Append(@, "store_message")]
    IN /\ WList(Main, UserEmail, m.role, m.content, m.conversation_id, UIEnv)
       /\ session' =
             IF pc'[Main] = "idle"
             THEN AfterStore(s2, m.role, last', GetKnownName(UserEmail)')
             ELSE [s2 EXCEPT !.phase = "storing"]

\* store_message goes on inside _append_message; when it has returned or
\* raised, lines 424-445 follow.
Storing ==
    /\ session.phase = "storing"
    /\ WSummarize(Main, UIEnv) \/ WDelete(Main, UIEnv) \/ WCreate(Main, UIEnv)
    /\ session' =
          IF pc'[Main] = "idle"
          THEN AfterStore(session, loc[Main].role, last', GetKnownName(UserEmail)')
          ELSE session

\* Lines 927-931: the user's message of a privacy request is appended
\* before the handler is called.
Asked(s, prompt) ==
    [s EXCEPT !.messages = Append(@, Message("user", prompt, "", <<>>, FALSE, FALSE)),
              !.prompt = prompt]

\* Lines 941-947: the handler's text is appended as the assistant's message,
\* then st.rerun().
Answered(s, response_content) ==
    Rerun([s EXCEPT !.messages = Append(@, Message("assistant", response_content,
                                                   "", <<>>, FALSE, FALSE))])

\* Lines 914-952 with the prompt s.input: a privacy request appends the
\* user's message and comes to its handler, which answers at once without
\* persistence and otherwise calls the client (lines 545, 599); any other
\* prompt is the user's turn of an exchange.
Prompted(s) ==
    LET p == s.input
        s0 == [s EXCEPT !.input = ""]
    IN IF IsDeleteDataRequest(p)
       THEN IF ~Persisting(s0) THEN Answered(Asked(s0, p), "not enabled")
            ELSE [Asked(s0, p) EXCEPT !.phase = "erasing"]
       ELSE IF IsDataInfoRequest(p)
       THEN IF ~Persisting(s0) THEN Answered(Asked(s0, p), "not enabled")
            ELSE [Asked(s0, p) EXCEPT !.phase = "informing"]
       ELSE AppendMessage([s0 EXCEPT !.prompt = p, !.response = NoResponse,
                                     !.rendered = <<>>],
                          "user", p, s0.conversation_id, <<>>, TRUE, FALSE)

\* Lines 878-880: what follows _handle_delete_data_request under the button
\* "Yes, Delete": the text is kept for the sidebar, then st.rerun().
AfterSidebarDelete(s, response_content) ==
    Rerun([s EXCEPT !.confirm_delete = FALSE, !.delete_result = response_content])

\* Lines 866-952, past the panel: the button pressed in this run acts, or
\* the prompt submitted is handled, up to the next call of the client; with
\* neither the run ends at the chat input.
Sidebar(s) ==
    IF s.button = "Close" THEN Rerun([s EXCEPT !.show_data_info = FALSE])
    ELSE IF s.button = "Yes, Delete"
    THEN IF ~Persisting(s) THEN AfterSidebarDelete(s, "not enabled")
         ELSE [s EXCEPT !.phase = "confirming"]
    ELSE IF s.button = "Cancel" THEN Rerun([s EXCEPT !.confirm_delete = FALSE])
    ELSE IF s.button = "OK" THEN Rerun([s EXCEPT !.delete_result = ""])
    ELSE IF s.input # "" THEN Prompted(s)
    ELSE [s EXCEPT !.phase = "ready"]

\* A run of main() begun by the user, from line 795: the sync and the
\* welcome, then the sidebar, up to the first call of the client. While the
\* panel "Your Stored Information" is open and persistence is on, that call
\* is the panel's (lines 861-864).
Enter(s) ==
    The({IF s1.show_data_info /\ Persisting(s1)
         THEN [s1 EXCEPT !.phase = "panel"]
         ELSE Sidebar(s1) :
         s1 \in {RunStart(s)}})

\* Lines 545-558: the text _handle_data_info_request returns after the call
\* of get_stored_info_summary
InfoText(l) ==
    IF l.raised THEN "could not retrieve"
    ELSE IF ~l.info.has_data THEN "nothing stored yet"
    ELSE "stored information"

\* Line 864: the panel's call of get_stored_info_summary is answered; its
\* text is shown, not kept, and the run goes on.
PanelStep(s) ==
    /\ UNCHANGED storeVars
    /\ \E o \in StoredInfoOutcomes(UserEmail, segments, now, UIEnv.list) :
          /\ session' = Sidebar([s EXCEPT !.issued = Append(@, "get_stored_info_summary")])
          /\ last' = o.last
          /\ now' = o.now

\* Line 936: the call of get_stored_info_summary for a prompt is answered;
\* the assistant's message follows.
InfoStep(s) ==
    /\ UNCHANGED storeVars
    /\ \E o \in StoredInfoOutcomes(UserEmail, segments, now, UIEnv.list) :
          /\ session' = Answered([s EXCEPT !.issued =
                                              Append(@, "get_stored_info_summary")],
                                 InfoText(o.last))
          /\ last' = o.last
          /\ now' = o.now

\* Lines 606-609: a successful deletion clears the history and the name of
\* the session.
Deleted(s, l) ==
    IF ~l.raised /\ l.deleted
    THEN [s EXCEPT !.context_history = <<>>, !.user_name = ""]
    ELSE s

\* Lines 600-620: the text _handle_delete_data_request returns after the
\* call of delete_user_data
DeleteText(l) ==
    IF l.raised THEN "could not delete"
    ELSE IF l.deleted THEN "deleted"
    ELSE "nothing to delete"

\* _handle_delete_data_request, lines 598-620, from the outcome of
\* delete_user_data, then lines 941-947 of the prompt's run
AfterDelete(s, l) == Answered(Deleted(s, l), DeleteText(l))

\* Line 934: delete_user_data is called for a prompt, up to its delete
\* request.
EraseStep(s) ==
    LET s2 == [s EXCEPT !.issued = Append(@, "delete_user_data")] IN
    /\ DList(Main, UserEmail, UIEnv)
    /\ session' = IF pc'[Main] = "idle" THEN AfterDelete(s2, last')
                  ELSE [s2 EXCEPT !.phase = "deleting"]

\* Line 877: delete_user_data is called under the button "Yes, Delete", up
\* to its delete request.
ConfirmStep(s) ==
    LET s2 == [s EXCEPT !.issued = Append(@, "delete_user_data")] IN
    /\ DList(Main, UserEmail, UIEnv)
    /\ session' = IF pc'[Main] = "idle"
                  THEN AfterSidebarDelete(Deleted(s2, last'), DeleteText(last'))
                  ELSE [s2 EXCEPT !.phase = "purging"]

\* The script in session state s, come to a call of the client, makes its
\* request; at the chat input, or before the request of the agent, it has
\* none to make.
Take(s) ==
    IF s.phase = "panel" THEN PanelStep(s)
    ELSE IF s.phase = "appending" THEN StoreList(s)
    ELSE IF s.phase = "informing" THEN InfoStep(s)
    ELSE IF s.phase = "erasing" THEN EraseStep(s)
    ELSE IF s.phase = "confirming" THEN ConfirmStep(s)
    ELSE session' = s /\ UNCHANGED clientVars

\* The user acts in session state s (a button pressed or a prompt
\* submitted): main() runs up to and with its first call of the client.
Act(s) == \E s1 \in {Enter(s)} : Take(s1)

\* A run may start while the list of messages leaves room for its two.
RoomFor(s) == Len(s.messages) + 2 <= MaxMessages

\* A chat prompt is submitted: a run of main() begins.
Submit(s, prompt) == [s EXCEPT !.issued = <<>>, !.input = prompt]

\* A sidebar button is pressed: a run of main() begins. "View My Data" and
\* "Delete My Data" have set their flag (lines 854-858) before the panel.
Click(s, button) ==
    [s EXCEPT !.issued = <<>>, !.clicks = @ + 1,
              !.button = IF button \in {"View My Data", "Delete My Data"} THEN ""
                         ELSE button,
              !.show_data_info = IF button = "View My Data" THEN TRUE ELSE @,
              !.confirm_delete = IF button = "Delete My Data" THEN TRUE ELSE @]

\* Lines 914-952: a chat prompt arrives; the user's turn is appended.
UserTurn ==
    /\ session.phase = "ready"
    /\ RoomFor(RunStart(session))
    /\ \E prompt \in Prompts :
          /\ ~IsDataInfoRequest(prompt) /\ ~IsDeleteDataRequest(prompt)
          /\ Act(Submit(session, prompt))

\* A prompt that asks what is stored: _handle_data_info_request
DataInfoRun ==
    /\ session.phase = "ready"
    /\ RoomFor(RunStart(session))
    /\ \E prompt \in Prompts :
          /\ IsDataInfoRequest(prompt) /\ ~IsDeleteDataRequest(prompt)
          /\ Act(Submit(session, prompt))

\* A prompt that asks for deletion: the user's message is appended, then
\* _handle_delete_data_request is called.
DeleteDataRun ==
    /\ session.phase = "ready"
    /\ RoomFor(RunStart(session))
    /\ \E prompt \in Prompts :
          /\ IsDeleteDataRequest(prompt)
          /\ Act(Submit(session, prompt))

\* Lines 854-855: the button "View My Data" opens the panel; no message is
\* appended.
ViewData ==
    /\ session.phase = "ready"
    /\ session.clicks < MaxClicks
    /\ Act(Click(session, "View My Data"))

\* Lines 861-868: the panel is shown, then the button "Close" closes it and
\* st.rerun() follows.
CloseInfo ==
    /\ session.phase = "ready"
    /\ session.clicks < MaxClicks
    /\ session.show_data_info
    /\ Act(Click(session, "Close"))

\* Lines 857-858: the button "Delete My Data" asks for confirmation.
AskDelete ==
    /\ session.phase = "ready"
    /\ session.clicks < MaxClicks
    /\ Act(Click(session, "Delete My Data"))

\* Lines 882-884: the button "Cancel", then st.rerun()
CancelDelete ==
    /\ session.phase = "ready"
    /\ session.clicks < MaxClicks
    /\ session.confirm_delete
    /\ Act(Click(session, "Cancel"))

\* Lines 876-880: the button "Yes, Delete" calls
\* _handle_delete_data_request; no message is appended.
ConfirmDelete ==
    /\ session.phase = "ready"
    /\ session.clicks < MaxClicks
    /\ session.confirm_delete
    /\ Act(Click(session, "Yes, Delete"))

\* Lines 887-892: the button "OK" under the result of a deletion, then
\* st.rerun()
CloseDeleteResult ==
    /\ session.phase = "ready"
    /\ session.clicks < MaxClicks
    /\ session.delete_result # ""
    /\ Act(Click(session, "OK"))

\* The run has come to the open panel with a call of the client already
\* made in it, or straight after st.rerun(): the panel's call is made.
Panel == session.phase = "panel" /\ PanelStep(session)

\* The panel's call made, the run has appended the user's turn:
\* store_message is called.
Appending == session.phase = "appending" /\ StoreList(session)

\* The panel's call made, the run has come to _handle_data_info_request for
\* a prompt.
Informing == session.phase = "informing" /\ InfoStep(session)

\* The panel's call made, the run has come to _handle_delete_data_request
\* for a prompt.
Erasing == session.phase = "erasing" /\ EraseStep(session)

\* The panel's call made, the run has come to _handle_delete_data_request
\* under the button "Yes, Delete".
Confirming == session.phase = "confirming" /\ ConfirmStep(session)

\* Lines 954-969: agent.run(prompt), any exception turned into an error
\* answer; the reply is rendered with its sources.
AgentRun ==
    /\ session.phase = "asked"
    /\ \E o \in AgentOutcomes :
          LET cid == IF o.ok THEN "c1" ELSE session.conversation_id
              r == IF o.ok THEN Response(session.prompt, o.answer, cid, o.citations)
                   ELSE Response(session.prompt, "[error]", cid, <<>>)
          IN session' = [session EXCEPT !.phase = "answered",
                                        !.conversation_id = cid,
                                        !.response = r,
                                        !.rendered = RenderCitations(r.citations, TRUE),
                                        !.issued = <<>>]
    /\ UNCHANGED clientVars

\* Lines 971-980: the reply is appended; the run ends.
AssistantTurn ==
    /\ session.phase = "answered"
    /\ \E s1 \in {AppendMessage(session, "assistant", session.response.answer,
                                session.conversation_id, session.response.citations,
                                TRUE, TRUE)} :
          Take(s1)

\* delete_user_data goes on inside _handle_delete_data_request; when it has
\* returned or raised, the assistant's message is appended.
Deleting ==
    /\ session.phase = "deleting"
    /\ DDelete(Main, UIEnv)
    /\ session' = AfterDelete(session, last')

\* delete_user_data goes on under the button "Yes, Delete".
SidebarDeleting ==
    /\ session.phase = "purging"
    /\ DDelete(Main, UIEnv)
    /\ session' = AfterSidebarDelete(Deleted(session, last'), DeleteText(last'))

InitUI ==
    /\ segments \in {<<OtherRecord>>, <<OtherRecord, NamedRecord>>}
    /\ foreign = 0
    /\ nextId = 1
    /\ known_names = [e \in Emails |-> Unset]
    /\ summarizer \in BOOLEAN
    /\ now = 1
    /\ last = NoCall
    /\ pc = [w \in Writers |-> "idle"]
    /\ loc = [w \in Writers |-> NoLocals]
    /\ overlap = FALSE
    /\ chat = NoChat
    /\ parsing = NoParsing
    /\ session \in {NewSession(c) : c \in BOOLEAN}

NextUI ==
    FirstRun \/ UserTurn \/ DataInfoRun \/ DeleteDataRun \/ ViewData \/ CloseInfo
    \/ AskDelete \/ CancelDelete \/ ConfirmDelete \/ CloseDeleteResult
    \/ Panel \/ Appending \/ Storing \/ AgentRun \/ AssistantTurn \/ Informing
    \/ Erasing \/ Deleting \/ Confirming \/ SidebarDeleting \/ Tick

SpecUI == InitUI /\ [][NextUI]_vars

\* Within a run the script goes on by itself: every remote request is made
\* with a timeout, so a call in progress returns or raises and a call the
\* script has come to is made; once the user's turn is appended the agent is
\* called, and once it has answered the reply is appended. Whether another
\* prompt or click ever arrives is up to the user.
SpecUILive ==
    /\ InitUI /\ [][NextUI]_vars
    /\ WF_vars(Panel) /\ WF_vars(Appending) /\ WF_vars(Storing)
    /\ WF_vars(AgentRun) /\ WF_vars(AssistantTurn) /\ WF_vars(Informing)
    /\ WF_vars(Erasing) /\ WF_vars(Deleting) /\ WF_vars(Confirming)
    /\ WF_vars(SidebarDeleting)

(***************************************************************************)
(* Properties                                                              *)
(***************************************************************************)
\* The live segments of an email, listed or not.
LiveIdx(e) == {i \in 1..Len(segments) : EffectiveEmail(segments[i]) = e}
LiveCount(e) == Cardinality(LiveIdx(e))

\* The segment created last and, in a step, the record just persisted.
Newest == segments[Len(segments)]
Persisted == segments'[Len(segments')].content

HasCall(l, name) == \E i \in 1..Len(l.calls) : l.calls[i].call = name
FinalCall(l) == l.calls[Len(l.calls)]

\* Every segment is inside the list window of the lookup.
InsideWindow == foreign + Len(segments) <= ListLimit

\* No call is in progress.
Quiet == \A w \in Writers : pc[w] = "idle"

\* In a step that ends a store_message or delete_user_data call: what its
\* lookup returned, the segments the store held at its list call, those of
\* them the lookup saw, and the live segments of an email among them.
Found == last'.find
Before == last'.before
ListedBefore == Window(Before, foreign, ListLimit)
LiveBefore(e) == {i \in 1..Len(Before) : EffectiveEmail(Before[i]) = e}
BeyondWindowBefore(e) ==
    /\ LiveBefore(e) # {}
    /\ \A i \in LiveBefore(e) : foreign + i > ListLimit

\* A step in which store_message persists a record and returns.
StoreOkStep ==
    /\ nextId' = nextId + 1
    /\ last'.op = "store"
    /\ ~last'.raised

SameFields(x, y) ==
    /\ x.timestamp = y.timestamp
    /\ x.role = y.role
    /\ x.summary = y.summary
    /\ x.conversation_id = y.conversation_id

\* The record just persisted is old followed by the entry returned.
AppendsTo(old) ==
    /\ Persisted.kind = "dict"
    /\ Persisted.hasList
    /\ Len(Persisted.history) = Len(old) + 1
    /\ \A i \in 1..Len(old) : SameFields(Persisted.history[i], old[i])
    /\ Persisted.history[Len(old) + 1] = last'.entry[1]

----------------------------------------------------------------------------
\* A fetch_user_history(e) that comes right after the store_message(e,
\* "user", c) that created the only segment of e, with the summarizer off.
RoundTripStep ==
    /\ ~summarizer
    /\ last.op = "store" /\ ~last.raised /\ last.entry # <<>>
    /\ last.role = "user"
    /\ ~HasCall(last, "delete")
    /\ LiveCount(last.email) = 1
    /\ last'.op = "fetch" /\ last'.email = last.email /\ ~last'.raised
    /\ last'.calls[1].status = 200

RoundTripResult ==
    /\ Len(last'.hist) = 1
    /\ last'.hist[1].role = "user"
    /\ last'.hist[1].summary = last.content

\* C1 (as claimed): with the summarizer off and no segment for e in the
\* store, store_message(e, "user", c) followed by fetch_user_history(e)
\* returns exactly one entry, of role "user" and summary c.
C1_Original == [][RoundTripStep => RoundTripResult]_vars

\* C1 (amended): the same, provided the store held fewer than 100 segments
\* when store_message was called, so that the segment it creates is inside
\* the list window of the fetch.
C1_RoundTrip == [][RoundTripStep /\ InsideWindow => RoundTripResult]_vars

C1_Witness ==
    /\ ~summarizer /\ foreign = 0
    /\ last.op = "fetch" /\ ~last.raised
    /\ LiveCount(last.email) = 1
    /\ Len(last.hist) = 1
    /\ last.hist[1].role = "user" /\ last.hist[1].summary = "hello"

----------------------------------------------------------------------------
\* C2 (as claimed): when a segment for the email exists, the record persisted
\* by a successful store_message is that segment's history, entry by entry,
\* followed by the one new entry.
C2_Original ==
    [][StoreOkStep /\ Cardinality(LiveBefore(last'.email)) = 1
        => AppendsTo(Before[CHOOSE i \in LiveBefore(last'.email) : TRUE].content.history)]_vars

\* C2 (amended): when the lookup locates a segment for the email (it is
\* among the first 100 segments listed), the record persisted by a successful
\* store_message is that segment's history, entry by entry with the same
\* timestamp, role, summary and conversation_id, followed by the one new
\* entry, which is the entry returned; when it locates none, the record holds
\* the new entry alone. So n successful calls on a record that stays inside
\* the window leave n entries.
C2_AppendOnly ==
    [][StoreOkStep
        => IF Found.found THEN AppendsTo(Found.segment.content.history)
           ELSE AppendsTo(<<>>)]_vars

C2_Witness ==
    /\ last.op = "store" /\ ~last.raised /\ HasCall(last, "delete")
    /\ Newest.metaEmail = last.email
    /\ Len(Newest.content.history) = 2
    /\ Newest.content.history[1].conversation_id = "c1"
    /\ Newest.content.history[2] = last.entry[1]

----------------------------------------------------------------------------
OnePerEmail == \A e \in Emails : LiveCount(e) <= 1

\* C3 (as claimed): with one sequential writer, from a store with at most one
\* segment per email, all inside the lookup window, every state reached by
\* store_message and delete_user_data calls, failing or not, holds at most
\* one live segment per email.
C3_Original == OnePerEmail

\* C3 (amended): a store_message or delete_user_data call, failing or not,
\* that starts with at most one live segment per email and with every
\* segment inside the lookup window (at most 100 segments in the document)
\* ends with at most one live segment per email.
C3_OnePerEmail == [][OnePerEmail /\ InsideWindow => OnePerEmail']_vars

C3_Witness ==
    /\ InsideWindow /\ nextId = 3
    /\ last.op = "store" /\ ~last.raised /\ HasCall(last, "delete")
    /\ LiveCount(last.email) = 1

----------------------------------------------------------------------------
\* The entry writer w appended is in a live segment of its email.
EntryLive(w) ==
    \E i \in LiveIdx(loc[w].email) :
        \E j \in 1..Len(segments[i].content.history) :
            SameFields(segments[i].content.history[j], loc[w].new_entry)

\* C4: when two store_message calls for the same email have both returned
\* without a store failure, two live segments exist for the email if one
\* call listed while the other was between its list and its create, and one
\* live segment if not; neither appended entry is missing from the store.
C4_Race ==
    (\A w \in Writers : pc[w] = "idle" /\ loc[w].op = "store")
        => /\ \A w \in Writers : EntryLive(w)
           /\ \A w \in Writers :
                LiveCount(loc[w].email) = IF overlap THEN 2 ELSE 1

C4_Witness ==
    /\ \A w \in Writers : pc[w] = "idle" /\ loc[w].op = "store"
    /\ overlap
    /\ LiveCount("a@x.com") = 2

----------------------------------------------------------------------------
\* A step in which store_message ran with a summarization call that raised.
SummarizerFailedStep ==
    /\ last'.op = "store"
    /\ nextId' # nextId \/ last' # last
    /\ \E i \in 1..Len(last'.calls) :
          last'.calls[i].call = "summarize" /\ last'.calls[i].raised

\* C5: when the summarization call raises (a transport failure, a status
\* other than 200, an answer that is no JSON object) and the store calls
\* succeed, store_message does not raise and persists the record; the
\* appended entry has the raw content as its summary, the record keeps the
\* existing name, and a user turn is flagged "yes".
C5_SummarizerFallback ==
    [][SummarizerFailedStep
        => LET find == Found IN
           /\ ~last'.raised
           /\ nextId' = nextId + 1
           /\ last'.entry # <<>>
           /\ last'.entry[1].summary = last'.content
           /\ last'.entry[1].role = last'.role
           /\ last'.entry[1].question_hie_related
                = IF last'.role = "user" THEN "yes" ELSE ""
           /\ Persisted.history[Len(Persisted.history)] = last'.entry[1]
           /\ Persisted.name = IF find.found THEN find.segment.content.name ELSE ""]_vars

C5_Witness ==
    /\ last.op = "store" /\ ~last.raised /\ last.role = "user"
    /\ \E i \in 1..Len(last.calls) :
          last.calls[i].call = "summarize" /\ last.calls[i].status = 0
    /\ Newest.content.name = "Ann"
    /\ last.entry[1].summary = "hello"
    /\ last.entry[1].question_hie_related = "yes"

----------------------------------------------------------------------------
\* A remote call of the store failed: a transport failure or an error status.
StoreCallFailed(c) ==
    CASE c.call = "list"   -> c.status = 0 \/ (c.status >= 400 /\ c.status # 404)
      [] c.call = "delete" -> c.status \notin {200, 202, 204, 404}
      [] c.call = "create" -> c.status = 0 \/ c.status >= 400
      [] OTHER             -> FALSE

\* C6: store_message raises whenever its list, delete or create call fails,
\* and issues no further call; it returns an entry only after a create call
\* that succeeded, and the entry is then the last one of the record just
\* persisted for the email.
C6_StoreFailuresFatal ==
    last.op = "store"
        => /\ \A i \in 1..Len(last.calls) :
                StoreCallFailed(last.calls[i])
                    => last.raised /\ last.entry = <<>> /\ i = Len(last.calls)
           /\ last.entry # <<>>
                => /\ ~last.raised
                   /\ FinalCall(last).call = "create"
                   /\ ~StoreCallFailed(FinalCall(last))
           /\ (last.entry # <<>> /\ Quiet)
                => /\ Newest.metaEmail = last.email
                   /\ Newest.content.email = last.email
                   /\ Newest.content.history[Len(Newest.content.history)]
                        = last.entry[1]

C6_Witness ==
    /\ last.op = "store" /\ last.raised
    /\ HasCall(last, "delete")
    /\ FinalCall(last).call = "create" /\ FinalCall(last).status = 500

----------------------------------------------------------------------------
\* C7 (as claimed): a 404 answered to the list call is "no record", not an
\* error: store_message creates the first segment and returns the entry,
\* delete_user_data returns false, get_stored_info_summary reports
\* has_data = false, and none of them raises.
C7_Original ==
    (/\ last.op \in {"store", "delete", "info"}
     /\ last.calls # <<>>
     /\ last.calls[1].status = 404)
        => /\ ~last.raised
           /\ last.op = "store"
                => last.entry # <<>> /\ FinalCall(last).call = "create"
           /\ last.op = "delete" => ~last.deleted
           /\ last.op = "info" => ~last.info.has_data

----------------------------------------------------------------------------
\* C8: fetch_user_history returns an empty sequence without raising when the
\* list call is answered 404, and raises for any other status >= 400 and
\* for a transport failure.
C8_FetchMissingDocument ==
    last.op = "fetch"
        => /\ last.calls[1].status = 404 => ~last.raised /\ last.hist = <<>>
           /\ (last.calls[1].status = 0
               \/ (last.calls[1].status >= 400 /\ last.calls[1].status # 404))
                => last.raised

C8_Witness ==
    /\ last.op = "fetch" /\ last.calls[1].status = 404
    /\ ~last.raised /\ last.hist = <<>>
    /\ foreign = 0 /\ LiveCount(last.email) = 1

----------------------------------------------------------------------------
\* A step in which delete_user_data returns.
DeleteReturnsStep ==
    /\ last'.op = "delete" /\ ~last'.raised
    /\ last' # last

\* The call that returns in this step follows at once a delete_user_data
\* for the same email that returned true: it listed the store as that call
\* left it.
SecondDelete ==
    /\ last.op = "delete" /\ ~last.raised /\ last.deleted
    /\ last.email = last'.email
    /\ Before = Without(last.before, last.find.segment.id)

\* C9 (as claimed): delete_user_data(e) returns true exactly when a segment
\* for e was located and deleted; and when it has returned true, a second
\* call that follows immediately returns false.
C9_Original ==
    [][DeleteReturnsStep
        => /\ last'.deleted
                <=> (Found.found /\ ~HasId(segments', Found.segment.id))
           /\ SecondDelete => ~last'.deleted]_vars

----------------------------------------------------------------------------
\* C10 (as claimed): after delete_user_data(e) has returned true, no live
\* segment for e remains in the store. The calls looked at are those during
\* which nothing else wrote to the store.
C10_Original ==
    [][\A e \in Emails :
         (/\ DeleteReturnsStep /\ last'.deleted /\ last'.email = e
          /\ segments' = Without(Before, Found.segment.id))
            => LiveCount(e)' = 0]_vars

----------------------------------------------------------------------------
\* The object items a record's content holds, as stored: the items of its
\* "history" list, or the record itself in the flat shape; none when the
\* content is no JSON object.
RawEntries(seg) ==
    IF seg.content.kind # "dict" THEN <<>>
    ELSE IF seg.content.hasList
         THEN SelectSeq(seg.content.history, LAMBDA it : it.isdict)
         ELSE <<seg.content.top>>

\* The listed segments whose resolved email is e.
ListedFor(e) == {i \in 1..Len(Listed) : EffectiveEmail(Listed[i]) = e}

RECURSIVE RawCount(_, _)
RawCount(e, i) ==
    IF i = 0 THEN 0
    ELSE RawCount(e, i - 1)
         + (IF i \in ListedFor(e) THEN Len(RawEntries(Listed[i])) ELSE 0)

\* The decoded fields of a stored item.
SummaryOf(it) == IF it.summary # "" THEN it.summary ELSE it.content
RoleOf(it) == IF it.role = Unset THEN "user" ELSE it.role

\* Returned entry h is stored item it: its fields as decoded, with a reading
\* of the clock for the timestamp of an item stored without one.
Returns(h, it) ==
    /\ IF it.timestamp # 0 THEN h.timestamp = it.timestamp
       ELSE h.timestamp \in 1..MaxClock
    /\ h.role = RoleOf(it)
    /\ h.summary = SummaryOf(it)
    /\ h.conversation_id = it.conversation_id

\* C11: fetch_user_history(e) returns the entries of all listed segments
\* whose resolved email is e, and of no other segment, in non-decreasing
\* timestamp order.
C11_FetchFlattenSort ==
    (last.op = "fetch" /\ ~last.raised /\ last.calls[1].status = 200 /\ Quiet)
        => /\ Len(last.hist) = RawCount(last.email, Len(Listed))
           /\ \A i \in ListedFor(last.email) :
                \A j \in 1..Len(RawEntries(Listed[i])) :
                   \E k \in 1..Len(last.hist) :
                      Returns(last.hist[k], RawEntries(Listed[i])[j])
           /\ \A k \in 1..Len(last.hist) :
                \E i \in ListedFor(last.email) :
                   \E j \in 1..Len(RawEntries(Listed[i])) :
                      Returns(last.hist[k], RawEntries(Listed[i])[j])
           /\ \A k \in 1..(Len(last.hist) - 1) :
                last.hist[k].timestamp <= last.hist[k + 1].timestamp

C11_Witness ==
    /\ last.op = "fetch" /\ ~last.raised
    /\ Cardinality(ListedFor(last.email)) = 2
    /\ Len(last.hist) = 3
    /\ last.hist[1].summary = "q1" /\ last.hist[1].timestamp = 1
    /\ last.hist[2].summary = "q2" /\ last.hist[3].summary = "s"
    /\ segments[1] = ListRecord

----------------------------------------------------------------------------
\* C12 (as claimed): when store_message locates, by metadata.user_email, a
\* segment whose content is not a JSON object, it does not raise and the
\* record it persists has the name "" and a history of exactly the one new
\* entry.
C12_Original ==
    [][(/\ last'.op = "store" /\ last'.content # ""
        /\ nextId' # nextId \/ last' # last
        /\ Found.found
        /\ Found.segment.content.kind # "dict")
        => /\ ~last'.raised
           /\ last'.entry # <<>>
           /\ Persisted.name = ""
           /\ Len(Persisted.history) = 1
           /\ Persisted.history[1] = last'.entry[1]]_vars

----------------------------------------------------------------------------
\* The record store_message located in this step, as stored.
Located == Found.segment

\* A successful store_message on a located record whose content is an object.
StoreOnObjectStep ==
    /\ StoreOkStep
    /\ Found.found
    /\ Located.content.kind = "dict"

\* C13: a record object with no "history" list and with summary, role and
\* timestamp at top level decodes to exactly one entry carrying them; a
\* record with a "history" list decodes to one entry per object item, in
\* order, the other items dropped. The decoded history is what
\* store_message persists in front of the new entry.
C13_LegacyDecode ==
    [][StoreOnObjectStep
        => /\ Len(Persisted.history) = Len(RawEntries(Located)) + 1
           /\ \A j \in 1..Len(RawEntries(Located)) :
                 Returns(Persisted.history[j], RawEntries(Located)[j])
           /\ (/\ ~Located.content.hasList
               /\ Located.content.top.summary # ""
               /\ Located.content.top.role \notin {"", Unset}
               /\ Located.content.top.timestamp # 0)
                => /\ Len(Persisted.history) = 2
                   /\ Persisted.history[1].summary = Located.content.top.summary
                   /\ Persisted.history[1].role = Located.content.top.role
                   /\ Persisted.history[1].timestamp = Located.content.top.timestamp]_vars

C13_Witness ==
    /\ last.op = "store" /\ ~last.raised /\ HasCall(last, "delete")
    /\ ~HasId(segments, 81) /\ nextId = 2
    /\ Len(segments) = 1
    /\ Len(Newest.content.history) = 2
    /\ Newest.content.history[1].summary = "s"
    /\ Newest.content.history[1].role = "assistant"
    /\ Newest.content.history[1].timestamp = 2
    /\ Newest.content.history[2] = last.entry[1]

----------------------------------------------------------------------------
\* The email embedded in a segment's content ("" when there is none).
ContentEmail(seg) ==
    IF seg.content.kind = "dict" THEN seg.content.email ELSE ""

\* A segment matches e as claimed: by metadata.user_email, or by the email
\* in its content when the metadata is absent or names a different email.
MatchesAsClaimed(seg, e) ==
    \/ seg.metaEmail = e
    \/ seg.metaEmail # e /\ ContentEmail(seg) = e

\* A segment matches e: by metadata.user_email, or by the email in its
\* content when the metadata is absent or empty.
MatchesByMetadataFirst(seg, e) ==
    \/ seg.metaEmail = e
    \/ seg.metaEmail = "" /\ ContentEmail(seg) = e

\* delete_user_data removes the first listed segment of the set M, and
\* returns false when M is empty.
DeletesFirstOf(M) ==
    /\ last'.deleted <=> M # {}
    /\ M = {} => segments' = Before
    /\ M # {} =>
         LET first == CHOOSE i \in M : \A j \in M : i <= j
         IN segments' = Without(Before, ListedBefore[first].id)

\* C14 (as claimed): the segment located for an email is the first listed
\* one whose metadata.user_email is the email or, the metadata being absent
\* or a different email, whose content names the email.
C14_Original ==
    [][DeleteReturnsStep
        => DeletesFirstOf({i \in 1..Len(ListedBefore) :
                             MatchesAsClaimed(ListedBefore[i], last'.email)})]_vars

\* C14 (amended): the segment located for an email is the first listed one
\* whose metadata.user_email is the email or, the metadata being absent or
\* empty, whose content names the email. A segment whose metadata names a
\* different email is never located by its content.
C14_FirstMatch ==
    [][DeleteReturnsStep
        => DeletesFirstOf({i \in 1..Len(ListedBefore) :
                             MatchesByMetadataFirst(ListedBefore[i], last'.email)})]_vars

C14_Witness ==
    /\ last.op = "delete" /\ ~last.raised /\ last.deleted
    /\ nextId = 1
    /\ segments = <<MismatchRecord>>
    /\ last.calls[2].status = 204

----------------------------------------------------------------------------
\* C15: store_message with empty content returns an empty result, issues no
\* list, summarize, delete or create call and leaves the store and the name
\* cache unchanged.
C15_EmptyContentNoOp ==
    [][(last'.op = "store" /\ last'.content = "" /\ last' # last)
        => /\ ~last'.raised
           /\ last'.entry = <<>>
           /\ last'.calls = <<>>
           /\ segments' = segments
           /\ nextId' = nextId
           /\ known_names' = known_names]_vars

C15_Witness ==
    /\ last.op = "store" /\ last.content = "" /\ last.calls = <<>>
    /\ last.entry = <<>> /\ ~last.raised
    /\ LiveCount(last.email) = 1
    /\ known_names[last.email] = "Bob"

----------------------------------------------------------------------------
\* The summarization call of the last store_message answered with a JSON
\* object whose question_hie_related is "no" in some letter case.
SummarizerSaidNo ==
    \E i \in 1..Len(last.calls) :
        /\ last.calls[i].call = "summarize"
        /\ last.calls[i].status = 200
        /\ last.calls[i].answer.json = "dict"
        /\ last.calls[i].answer.flag \in {"no", "No", "NO", " No "}

\* C16: the entry built by store_message carries a topic flag exactly when
\* the role is "user"; the flag is "yes" or "no", and it is "no" exactly
\* when the summarizer answered "no" (in any letter case): every other
\* value, a missing value, a disabled and a failing summarizer give "yes".
C16_TopicFlag ==
    (last.op = "store" /\ last.entry # <<>>)
        => LET flag == last.entry[1].question_hie_related IN
           /\ flag # "" <=> last.role = "user"
           /\ flag \in {"", "yes", "no"}
           /\ flag = "no" <=> (last.role = "user" /\ SummarizerSaidNo)

C16_Witness ==
    /\ last.op = "store" /\ last.role = "user" /\ last.entry # <<>>
    /\ last.entry[1].question_hie_related = "no"
    /\ \E i \in 1..Len(last.calls) : last.calls[i].answer.flag = " No "

----------------------------------------------------------------------------
\* The summarization call of this store_message step reported the name n.
SummarizerNamed(n) ==
    /\ n # ""
    /\ \E i \in 1..Len(last'.calls) :
          /\ last'.calls[i].call = "summarize"
          /\ last'.calls[i].status = 200
          /\ last'.calls[i].answer.json = "dict"
          /\ last'.calls[i].answer.name = n

\* C17 (as claimed): once the record for an email holds a non-empty name, a
\* successful store_message persists a non-empty name for it, and a name
\* other than the record's only when the summarizer reported that name.
C17_Original ==
    [][StoreOkStep
        => \A i \in LiveBefore(last'.email) :
              Before[i].content.name # ""
                 => /\ Persisted.name # ""
                    /\ Persisted.name # Before[i].content.name
                          => SummarizerNamed(Persisted.name)]_vars

\* C17 (amended): the same for the record the lookup locates (it is among
\* the first 100 segments listed): the name persisted is the name reported
\* by the summarizer if that is non-empty, and the located record's name
\* otherwise ("" when no record is located).
C17_NameMerge ==
    [][StoreOkStep
        => LET find == Found
               existing == IF find.found THEN find.segment.content.name ELSE ""
           IN /\ existing # "" => Persisted.name # ""
              /\ Persisted.name # existing => SummarizerNamed(Persisted.name)]_vars

C17_Witness ==
    /\ last.op = "store" /\ ~last.raised /\ HasCall(last, "delete")
    /\ \E i \in 1..Len(last.calls) :
          last.calls[i].call = "summarize" /\ last.calls[i].status = 500
    /\ InsideWindow
    /\ Newest.content.name = "Ann"

----------------------------------------------------------------------------
\* C18: after a successful store_message(e, ...) get_known_name(e) is the
\* name of the record just persisted; after delete_user_data(e) has returned
\* true it is "", and it stays so until a store_message or fetch_user_history
\* for e (the cached name of an email changes in no other step); for an
\* email never observed it is "".
C18_NameCache ==
    [][\A e \in Emails :
         /\ (StoreOkStep /\ last'.email = e)
               => GetKnownName(e)' = Persisted.name
         /\ (DeleteReturnsStep /\ last'.email = e /\ last'.deleted)
               => GetKnownName(e)' = ""
         /\ GetKnownName(e)' # GetKnownName(e)
               => \/ \E w \in Writers :
                       pc[w] = "summarize" /\ pc'[w] # "summarize" /\ loc[w].email = e
                  \/ /\ last' # last /\ last'.email = e
                     /\ last'.op \in {"fetch", "delete"}
         /\ (GetKnownName(e)' # GetKnownName(e) /\ GetKnownName(e) = "")
               => \/ \E w \in Writers : pc[w] = "summarize" /\ pc'[w] # "summarize"
                  \/ last' # last /\ last'.op = "fetch"
         /\ e \notin Users => GetKnownName(e)' = ""]_vars

C18_Witness ==
    /\ last.op = "store" /\ ~last.raised /\ last.entry # <<>>
    /\ HasCall(last, "delete")
    /\ Newest.content.name = "Bob"
    /\ GetKnownName(last.email) = "Bob"

----------------------------------------------------------------------------
\* The non-empty summaries of the user-role entries of a segment, in order.
UserSummaries(seg) ==
    LET sel == SelectSeq(RawEntries(seg),
                         LAMBDA it : RoleOf(it) = "user" /\ SummaryOf(it) # "")
    IN [j \in 1..Len(sel) |-> SummaryOf(sel[j])]

\* The timestamps item it may decode to in a call that runs from time lo to
\* time hi: the one stored, or a reading of the clock when none is stored.
DecodedTimes(it, lo, hi) ==
    IF it.timestamp # 0 THEN {it.timestamp} ELSE lo..hi

\* info describes segment seg, decoded between time lo and time hi.
Describes(info, seg, lo, hi) ==
    LET n == Len(RawEntries(seg))
        ts(j) == DecodedTimes(RawEntries(seg)[j], lo, hi)
        us == UserSummaries(seg)
    IN /\ info.has_data
       /\ info.name = seg.content.name
       /\ info.message_count = n
       /\ \E j \in 1..n : info.first_interaction \in ts(j)
       /\ \A j \in 1..n : \E t \in ts(j) : info.first_interaction <= t
       /\ \E j \in 1..n : info.last_interaction \in ts(j)
       /\ \A j \in 1..n : \E t \in ts(j) : info.last_interaction >= t
       /\ Len(info.sample_topics) = (IF Len(us) < 3 THEN Len(us) ELSE 3)
       /\ \A j \in 1..Len(info.sample_topics) :
             info.sample_topics[j]
                = us[Len(us) - Len(info.sample_topics) + j]

\* A step in which get_stored_info_summary returns.
InfoReturnsStep ==
    /\ last'.op = "info" /\ ~last'.raised
    /\ last' # last

\* C19 (as claimed): get_stored_info_summary(e) returns the all-empty result
\* with has_data = false when no record is located, and otherwise has_data =
\* true with the count, first and last timestamp and last three user
\* summaries of the located record; it changes neither store nor name cache.
C19_Original ==
    [][InfoReturnsStep
        => LET find == FindExistingSegment(Listed, last'.email) IN
           /\ segments' = segments /\ known_names' = known_names
           /\ ~find.found => last'.info = NoData
           /\ find.found => Describes(last'.info, find.segment, now, now')]_vars

\* C19 (amended): the all-empty result with has_data = false is returned
\* when no record is located and also when the located segment's content is
\* not a JSON object or is the empty object; otherwise the result describes
\* the located record as claimed, an item stored without a timestamp
\* counting with the time of the call.
C19_StoredInfo ==
    [][InfoReturnsStep
        => LET find == FindExistingSegment(Listed, last'.email)
               usable == /\ find.found
                         /\ find.segment.content.kind = "dict"
                         /\ find.segment.content.nonempty
           IN /\ segments' = segments /\ known_names' = known_names
              /\ ~usable => last'.info = NoData
              /\ usable => Describes(last'.info, find.segment, now, now')]_vars

C19_Witness ==
    /\ last.op = "info" /\ ~last.raised
    /\ segments[1] = LongRecord
    /\ last.info.has_data /\ last.info.name = "Ann"
    /\ last.info.message_count = 6
    /\ last.info.first_interaction = 1 /\ last.info.last_interaction = 2
    /\ last.info.sample_topics = <<"t2", "t3", "t4">>

----------------------------------------------------------------------------
\* The (title, snippet) pair citations are deduplicated by.
CiteKey(c) == <<c.title, c.snippet>>

\* The positions, in the normalized candidates ns, of the first entry of
\* every (title, snippet) pair.
FirstSeen(ns) ==
    {i \in 1..Len(ns) : \A j \in 1..(i - 1) : CiteKey(ns[j]) # CiteKey(ns[i])}

\* C20: the citations returned never hold two entries with the same (title,
\* snippet); they are, in the order of the key scan, the first entry seen of
\* every (title, snippet) pair, with that entry's source.
C20_CitationDedup ==
    chat.done
        => LET ns == NormalizeAll(Candidates(chat.metadata))
               cs == chat.citations
           IN IF ~chat.metadata.isdict THEN cs = <<>>
              ELSE /\ \A i, j \in 1..Len(cs) :
                        CiteKey(cs[i]) = CiteKey(cs[j]) => i = j
                   /\ Len(cs) = Cardinality(FirstSeen(ns))
                   /\ \A i \in FirstSeen(ns) :
                        cs[Cardinality({j \in FirstSeen(ns) : j <= i})] = ns[i]

C20_Witness ==
    /\ chat.done
    /\ chat.metadata.top["citations"] = Value("dict", <<>>, CiteB)
    /\ chat.metadata.top["retriever_resources"] = Value("wrapped", <<CiteC, CiteA>>, ScalarCitation(""))
    /\ chat.citations = <<Citation("T", "S", "u2"), Citation("T2", "S", "")>>

----------------------------------------------------------------------------
\* The answer without its surrounding code fence, as the claim reads it: an
\* opening fence with or without the language hint, the body, a closing
\* fence.
Unfenced(pieces) ==
    LET s == StripSpace(pieces) IN
    IF Len(s) >= 2 /\ Head(s) = Fence /\ s[Len(s)] = Fence
    THEN LET inner == SubSeq(s, 2, Len(s) - 1) IN
         IF inner # <<>> /\ Head(inner) = "json" THEN Tail(inner) ELSE inner
    ELSE s

Decoded(p) ==
    Result(p.raw.summary,
           IF p.raw.name # "" THEN p.raw.name ELSE p.fallback_name,
           NormalizeFlag(p.raw.flag))

\* C27 (as claimed): an answer that is a JSON object, bare or inside a
\* surrounding code fence with or without a language hint, is decoded into
\* its summary, name and flag; an answer that is no JSON once the fence is
\* stripped falls back to the trimmed raw answer as summary, fallback_name
\* as name and "yes" as flag; an empty answer yields the summary "".
C27_Original ==
    parsing.done =>
        LET raw == StripSpace(parsing.raw.pieces)
            kind == JsonLoads(Unfenced(raw))
        IN /\ raw = <<>> => ~parsing.raised /\ parsing.result.summary = ""
           /\ kind = "dict" => ~parsing.raised /\ parsing.result = Decoded(parsing)
           /\ raw # <<>> /\ kind = "invalid" =>
                /\ ~parsing.raised
                /\ parsing.result = Result(Join(raw), parsing.fallback_name, "yes")

----------------------------------------------------------------------------
\* The place of a remote call in store_message: the read, the summarization,
\* then the write, which is the delete of the located segment (if any)
\* followed by the create.
Rank(name) ==
    CASE name = "list" -> 1
      [] name = "summarize" -> 2
      [] name = "delete" -> 3
      [] name = "create" -> 4
      [] OTHER -> 0

\* C25: one store_message call issues its remote calls in the order read
\* (list), summarization, write (delete of the located segment, then
\* create), each at most once; the list call comes first; a call that
\* raised inside the store client is the last one (no retry, nothing after
\* it); so when the read fails neither the summarizer nor a write is called.
C25_CallOrder ==
    last.op = "store" =>
        /\ \A i, j \in 1..Len(last.calls) :
              i < j => Rank(last.calls[i].call) < Rank(last.calls[j].call)
        /\ \A i \in 1..Len(last.calls) : Rank(last.calls[i].call) # 0
        /\ last.calls # <<>> => last.calls[1].call = "list"
        /\ \A i \in 1..Len(last.calls) :
              last.calls[i].raised /\ last.calls[i].call # "summarize"
                  => i = Len(last.calls) /\ last.raised
        /\ (last.calls # <<>> /\ last.calls[1].raised) => Len(last.calls) = 1

\* A call that read, summarized (the request failed, once), deleted and
\* created.
C25_Witness ==
    /\ last.op = "store" /\ ~last.raised
    /\ Len(last.calls) = 4
    /\ last.calls[2].call = "summarize" /\ last.calls[2].raised
    /\ last.calls[3].call = "delete"
    /\ last.calls[4].call = "create"

----------------------------------------------------------------------------
\* The email has segments and all of them lie beyond the first ListLimit
\* segments of the document.
BeyondWindow(e) ==
    /\ LiveIdx(e) # {}
    /\ \A i \in LiveIdx(e) : foreign + i > ListLimit

\* C28: when the email's segments lie beyond the list window, a successful
\* store_message issues no delete and creates a new segment whose history is
\* the new entry alone, every older segment stays in place, so the email has
\* one live segment more (at least two); a delete_user_data that does not
\* raise then returns false and removes nothing.
C28_BoundedLookup ==
    [][\A e \in Emails :
        /\ (StoreOkStep /\ last'.email = e /\ BeyondWindowBefore(e))
              => /\ ~HasCall(last', "delete")
                 /\ Len(segments') = Len(Before) + 1
                 /\ SubSeq(segments', 1, Len(Before)) = Before
                 /\ Persisted.history = <<last'.entry[1]>>
                 /\ LiveCount(e)' = Cardinality(LiveBefore(e)) + 1
        /\ (last'.op = "delete" /\ last'.email = e /\ ~last'.raised
              /\ BeyondWindowBefore(e) /\ last' # last)
              => /\ ~last'.deleted
                 /\ segments' = Before]_vars

\* Two segments of the email written by one sequential writer, and a
\* delete_user_data that returned false.
C28_Witness ==
    /\ foreign = ListLimit - 1
    /\ LiveCount("a@x.com") = 2
    /\ last.op = "delete" /\ last.email = "a@x.com"
    /\ ~last.raised /\ ~last.deleted

----------------------------------------------------------------------------
\* A store_message(e, ...) step that raised, and the remote call that failed.
StoreFailedStep(e, name) ==
    /\ last'.op = "store" /\ last'.email = e /\ last'.raised
    /\ last' # last
    /\ FinalCall(last').call = name

\* C29: a store_message that fails on an email whose one segment the lookup
\* can see. If the list call or the delete call failed, no create was issued
\* and the store is unchanged. If the create call failed after the delete,
\* store_message raised and no live segment is left for the email; a
\* fetch_user_history that comes next and does not raise returns the empty
\* sequence.
C29_FailedStore ==
    [][\A e \in Emails :
        /\ (Cardinality(LiveBefore(e)) = 1 /\ ~BeyondWindowBefore(e))
              => /\ (StoreFailedStep(e, "list") \/ StoreFailedStep(e, "delete"))
                    => ~HasCall(last', "create") /\ segments' = Before
                 /\ StoreFailedStep(e, "create")
                    => /\ HasCall(last', "delete")
                       /\ LiveCount(e)' = 0
                       /\ Len(segments') = Len(Before) - 1
        /\ (/\ last.op = "store" /\ last.email = e /\ last.raised
            /\ FinalCall(last).call = "create" /\ HasCall(last, "delete")
            /\ LiveCount(e) = 0
            /\ last'.op = "fetch" /\ last'.email = e /\ ~last'.raised)
              => last'.hist = <<>>]_vars

\* The record an earlier store_message persisted was deleted and its
\* replacement not created.
C29_Witness ==
    /\ last.op = "store" /\ last.raised
    /\ FinalCall(last).call = "create" /\ HasCall(last, "delete")
    /\ LiveCount(last.email) = 0
    /\ nextId = 2

----------------------------------------------------------------------------
\* The names the summarization endpoint reports in the model.
DetectedNames == {a.name : a \in Answers} \ {""}

\* The name store_message merges in this step: the one the summarizer
\* reported if any, else the name of the record the lookup located.
MergedNameIs(e, n) ==
    LET find == Found
        existing == IF find.found THEN find.segment.content.name ELSE ""
    IN IF \E d \in DetectedNames : SummarizerNamed(d)
       THEN SummarizerNamed(n)
       ELSE n = existing

\* C30: when store_message raises because the list call failed the cache
\* entry of the email is unchanged; when it raises because the delete or the
\* create call failed, get_known_name(email) is already the merged name of
\* the record that was not persisted; a delete_user_data that returns false
\* or raises leaves the cache entry unchanged.
C30_CacheBeforeWrite ==
    [][\A e \in Emails :
        /\ StoreFailedStep(e, "list") => known_names'[e] = known_names[e]
        /\ (StoreFailedStep(e, "delete") \/ StoreFailedStep(e, "create"))
              => /\ known_names'[e] # Unset
                 /\ MergedNameIs(e, GetKnownName(e)')
        /\ (/\ last'.op = "delete" /\ last'.email = e /\ last' # last
            /\ (last'.raised \/ ~last'.deleted))
              => known_names'[e] = known_names[e]]_vars

\* The cache holds a name that no segment of the email holds.
C30_Witness ==
    /\ last.op = "store" /\ last.raised
    /\ FinalCall(last).call \in {"delete", "create"}
    /\ GetKnownName(last.email) = "Bob"
    /\ \A i \in LiveIdx(last.email) : segments[i].content.name # "Bob"

----------------------------------------------------------------------------
\* C26 (as claimed): a user entry persisted with flag "yes" or "no" is still
\* in the record, with the same flag, after a later successful store_message
\* that located the record; and in the record persisted only user-role
\* entries carry the flag.
C26_Original ==
    [][StoreOkStep
        => LET find == Found
               old == find.segment.content.history
           IN /\ find.found =>
                    \A i \in 1..Len(old) :
                        (old[i].role = "user"
                         /\ old[i].question_hie_related \in {"yes", "no"})
                            => /\ i <= Len(Persisted.history)
                               /\ Persisted.history[i].question_hie_related
                                      = old[i].question_hie_related
              /\ \A i \in 1..Len(Persisted.history) :
                    Persisted.history[i].question_hie_related # ""
                        => Persisted.history[i].role = "user"]_vars

----------------------------------------------------------------------------
\* The positions of the user entries with a summary in a decoded history.
UserIdx(h) == {i \in 1..Len(h) : h[i].role = "user" /\ h[i].summary # ""}

\* C23 (as claimed): the sample_topics of get_stored_info_summary are the up
\* to 3 user summaries of the located record with the greatest timestamps,
\* whatever the order of the persisted list: no user summary left out is
\* newer than one that is sampled.
C23_Original ==
    [][(last'.op = "info" /\ last' # last /\ ~last'.raised /\ last'.info.has_data)
        => LET find == FindExistingSegment(Listed, last'.email)
               h == ParseRecord(find.payload,
                                [i \in 1..ClockNeeded(find.payload) |-> now']).history
               topics == last'.info.sample_topics
               sampled == {i \in UserIdx(h) :
                             \E k \in 1..Len(topics) : topics[k] = h[i].summary}
           IN /\ Len(topics) = Min(3, Cardinality(UserIdx(h)))
              /\ \A i \in UserIdx(h) \ sampled, j \in sampled :
                    h[i].timestamp <= h[j].timestamp]_vars

----------------------------------------------------------------------------
LastMessage(s) == s.messages[Len(s.messages)]

\* The client call the session issued last, "" when it has issued none.
LastIssued(s) == IF s.issued = <<>> THEN "" ELSE s.issued[Len(s.issued)]

\* store_message has just raised while persisting the user's turn.
UserStoreFailed ==
    /\ session.phase # "off"
    /\ LastIssued(session) = "store_message"
    /\ last.op = "store" /\ last.role = "user" /\ last.raised

\* The run is over: the agent was called with the prompt of the run and its
\* reply is the last message, after the user's turn.
ReplyAppended ==
    /\ session.phase = "ready"
    /\ session.response.prompt = session.prompt
    /\ Len(session.messages) >= 2
    /\ session.messages[Len(session.messages) - 1].role = "user"
    /\ session.messages[Len(session.messages) - 1].content = session.prompt
    /\ LastMessage(session).role = "assistant"
    /\ LastMessage(session).content = session.response.answer

\* C21: when store_message fails while persisting the user's turn, the run
\* goes on: the agent is called with that prompt and its reply is appended
\* to the messages of the session.
C21_ExchangeCompletes == UserStoreFailed ~> ReplyAppended

C21_Witness ==
    /\ ReplyAppended
    /\ ~session.knowledge_available
    /\ last.op = "store" /\ last.role = "user" /\ last.raised
    /\ last.content = session.prompt
    /\ session.response.answer = "reply"

----------------------------------------------------------------------------
\* The calls of the knowledge client the script can have come to or be in.
ClientCallPhases ==
    {"panel", "appending", "storing", "informing", "erasing", "deleting",
     "confirming", "purging"}

\* C22: a store_message or fetch_user_history that raises sets
\* knowledge_available to false, and the script goes on past it to the
\* request of the agent or the chat input with no further call of the
\* knowledge client; once false it stays false, and no step of the session
\* issues or comes to a call of the knowledge client any more (the client
\* and its store are left as they are).
C22_PersistenceDisabled ==
    [][session.phase # "off" =>
        /\ (/\ last' # last
            /\ last'.op \in {"store", "fetch"}
            /\ last'.raised)
              => /\ ~session'.knowledge_available
                 /\ session'.phase \in {"ready", "asked"}
                 /\ LastIssued(session') \in {"store_message", "fetch_user_history"}
        /\ ~session.knowledge_available
              => /\ ~session'.knowledge_available
                 /\ session.phase \notin ClientCallPhases
                 /\ session'.phase \notin ClientCallPhases
                 /\ session' # session => session'.issued = <<>>
                 /\ UNCHANGED <<segments, nextId, known_names, last, pc, loc>>]_vars

\* A fetch failed in the first run; since then two exchanges have taken
\* place, the panel of the stored information has been opened and a deletion
\* has been confirmed in the sidebar, and the failed fetch is still the last
\* call of the client.
C22_Witness ==
    /\ session.phase = "ready"
    /\ session.configured /\ session.knowledge_client
    /\ ~session.knowledge_available
    /\ last.op = "fetch" /\ last.raised
    /\ Len(session.messages) >= 5
    /\ session.show_data_info
    /\ session.delete_result = "not enabled"

----------------------------------------------------------------------------
\* C24 (as claimed): the reply to a user turn stored with flag "no"
\* (pending_hie_related false) is rendered and recorded without sources; the
\* reply to a turn stored with flag "yes" or no flag, or not stored, is
\* rendered and recorded with sources.
C24_Original ==
    [][/\ (session.phase = "asked" /\ session'.phase = "answered")
            => (session'.rendered # <<>>) = session.pending_hie_related
       /\ (session.phase = "answered" /\ session'.phase \in {"ready", "panel", "storing"})
            => LastMessage(session').show_sources = session.pending_hie_related]_vars

====
